---- MODULE Spec2Model ----
(***************************************************************************)
(* Verification model of the Zaru face/hand analysis pipeline.             *)
(*                                                                         *)
(* Subsystems, each with its own specification over the shared variables:  *)
(*   SpecNms   NonMaxSuppression::process (crates/zaru/src/detection/nms)  *)
(*   SpecTrk   LandmarkTracker state machine driven by the example loop    *)
(*   SpecGui   the GUI bridge: show_image / send / start_gui / Gui::run    *)
(*   SpecPipe  the two-thread webcam -> detector pipeline of main          *)
(*   SpecTensor Tensor / TensorView construction, indexing and accessors   *)
(*   SpecDet   face Detector::detect with its suppressor                   *)
(*   SpecCnn   Cnn::new and Cnn::input_resolution                          *)
(*   SpecEst   Cnn::estimate: sampling of the source into the input tensor *)
(*   SpecNn    Loader / NeuralNetwork: load and estimate on CPU or GPU     *)
(*   SpecView  Image / ImageView / ImageViewMut: view and view_mut         *)
(*   SpecMap   create_linear_color_mapper and the mapper it returns        *)
(*   SpecNmsFair, SpecGuiFair: the same steps with the threads that take   *)
(*             them scheduled again and again (weak fairness)              *)
(*                                                                         *)
(* Numbers: f32 values are modelled as exact integers/rationals.           *)
(*   confidence is counted in units of 1/2 (1 = 0.5, 2 = 1.0),             *)
(*   rect coordinates in units of 1/2, iou_thresh in units of 1/10.        *)
(*   colour mapper results are counted in units of 1/255.                  *)
(*   u32 is modelled with a reduced width (see U32_MAX).                   *)
(***************************************************************************)
EXTENDS Integers, Sequences, FiniteSets, TLC

VARIABLES
    \* ---- NonMaxSuppression ----
    iou_thresh,     \* NonMaxSuppression.iou_thresh, in tenths
    mode,           \* NonMaxSuppression.mode
    avg_buf,        \* NonMaxSuppression.avg_buf
    out_buf,        \* NonMaxSuppression.out_buf
    detections,     \* the caller's Vec<RawDetection> that process() mutates
    npc,            \* position inside process(): idle / loop / drain / panicked
    nmsInput,       \* history: the list process() was called with
    rounds,         \* history: one record per completed iteration of the while loop
    \* ---- LandmarkTracker ----
    trk_roi,        \* the tracked face (ROI rect and rotation), or None
    trk_res,        \* what the track() call just made returned: a result or None
    trk_last,       \* history: the last tracker operation and what it saw
    trk_held,       \* history: a face was accepted since the last dropped track
    trk_dropped,    \* history: some track has been dropped so far
    trk_pc,         \* "ready", or "panicked" once a call has panicked
    \* ---- GUI bridge ----
    sender_cell,    \* the OnceCell SENDER: "uninit", "running" (initialiser at work), "done"
    sender_lock,    \* the Mutex around the proxy: 0 when free, else the holding thread
    c_pc,           \* per calling thread: position inside show_image/send
    c_msg,          \* per calling thread: the Msg::Image it is sending
    g_pc,           \* the "gui" thread: none / build / send_proxy / gui_new / run
    evq,            \* user events sent to the event loop and not yet handled
    windows,        \* Gui.windows: per key the frame in the window's texture (0: no window)
    redraw,         \* keys whose window has a redraw requested
    screen,         \* per key the frame last drawn to the window
    sentLog,        \* history: every message passed to send_event, in order
    handled,        \* history: every message the event loop has handled, in order
    nframes,        \* number of show_image calls made so far
    \* ---- webcam -> detector pipeline of main ----
    w_pc,           \* "Webcam Decoder" thread: read / send / done
    w_frame,        \* the frame the webcam thread holds
    d_pc,           \* "Face Detector" thread: recv / detect / show / panicked
    d_frame,        \* the frame the detector thread holds
    nread,          \* number of frames read from the webcam so far
    delivered,      \* history: frames received by the detector thread, in order
    shownLog,       \* history: frames passed to show_image, with their detection count
    \* ---- nn::tensor ----
    tn_pc,          \* none / built / view1 / view2 / done / panicked
    tn_shape,       \* the shape the constructor was called with
    tn_kind,        \* the producer the constructor was called with
    tn_ctor,        \* which constructor was called: "array" or "dyn"
    tn_tensor,      \* the Tensor (layout and data), or None
    tn_calls,       \* history: the indices the producer was called with, in order
    tn_view,        \* the TensorView last obtained, or None
    tn_path,        \* history: the index lists of the index() calls made so far
    tn_op,          \* history: the last call on the tensor or view and its outcome
    \* ---- face::detection::Detector ----
    det_pc,         \* idle / nms (inside nms.process) / panicked
    det_frame,      \* the network outputs of the frame being detected, per anchor
    det_out,        \* Detector.detections, the list detect() returns
    det_last,       \* history: the last detect() call, its inference outcome, result and full_res
    \* ---- zaru-nn Cnn ----
    cnn_pc,         \* none / ok (a Cnn exists) / err (new returned Err) / panicked
    cnn_net,        \* the NeuralNetwork given to Cnn::new: the shapes of its input nodes
    cnn_fmt,        \* the CnnInputShape given to Cnn::new
    cnn_res,        \* Cnn.input_res, or None
    cnn_read,       \* what input_resolution() returned, or None before the call
    \* ---- zaru-nn Cnn::estimate ----
    est_pc,         \* none / ok / err (the network returned Err) / panicked
    est_src,        \* the source image given to estimate(), or None
    est_tensor,     \* the input tensor image_map built, or None
    est_samples,    \* history: the source coordinates sample() computed, in order
    \* ---- zaru-nn Loader / NeuralNetwork ----
    nn_pc,          \* none / path_err / loader / loaded / load_err
    nn_data,        \* Loader.model_data: what the ONNX bytes hold, or None
    nn_enable_gpu,  \* Loader.enable_gpu
    nn_gpu,         \* NeuralNetworkImpl.gpu is Some
    nn_est,         \* history: the last estimate() call: backend, inputs routed, result; or None
    \* ---- image: Image, ImageView, ImageViewMut ----
    iv_pc,          \* none / image / view (an ImageView is held) / view_mut (an ImageViewMut)
    iv_img,         \* the Image: its width and height, or None
    iv_cur,         \* the area of the image the object held covers
    iv_depth,       \* number of view()/view_mut() calls made below the image
    iv_last,        \* history: the last view call: its name, its parent's area, the rect asked for
    \* ---- zaru-nn create_linear_color_mapper ----
    cm_pc,          \* none / made (a mapper exists) / panicked
    cm_range,       \* the target_range given: its start and end, or None
    cm_call,        \* the last call of the mapper: the colour and the result, or None
    cm_prev         \* history: the call of the mapper before the last one, or None

nmsVars == <<iou_thresh, mode, avg_buf, out_buf, detections, npc, nmsInput, rounds>>

trkVars == <<trk_roi, trk_res, trk_last, trk_held, trk_dropped, trk_pc>>

guiVars == <<sender_cell, sender_lock, c_pc, c_msg, g_pc, evq, windows, redraw, screen,
             sentLog, handled, nframes>>

pipeVars == <<w_pc, w_frame, d_pc, d_frame, nread, delivered, shownLog>>

tensorVars == <<tn_pc, tn_shape, tn_kind, tn_ctor, tn_tensor, tn_calls, tn_view, tn_path, tn_op>>

detVars == <<det_pc, det_frame, det_out, det_last>>

cnnVars == <<cnn_pc, cnn_net, cnn_fmt, cnn_res, cnn_read>>

estVars == <<est_pc, est_src, est_tensor, est_samples>>

nnVars == <<nn_pc, nn_data, nn_enable_gpu, nn_gpu, nn_est>>

viewVars == <<iv_pc, iv_img, iv_cur, iv_depth, iv_last>>

mapVars == <<cm_pc, cm_range, cm_call, cm_prev>>

vars == <<nmsVars, trkVars, guiVars, pipeVars, tensorVars, detVars, cnnVars,
          estVars, nnVars, viewVars, mapVars>>

\* what the operations of one subsystem leave alone
notNms == <<trkVars, guiVars, pipeVars, tensorVars, detVars, cnnVars,
            estVars, nnVars, viewVars, mapVars>>

notTrk == <<nmsVars, guiVars, pipeVars, tensorVars, detVars, cnnVars,
            estVars, nnVars, viewVars, mapVars>>

notGui == <<nmsVars, trkVars, pipeVars, tensorVars, detVars, cnnVars,
            estVars, nnVars, viewVars, mapVars>>

notPipe == <<nmsVars, trkVars, guiVars, tensorVars, detVars, cnnVars,
             estVars, nnVars, viewVars, mapVars>>

notTensor == <<nmsVars, trkVars, guiVars, pipeVars, detVars, cnnVars,
               estVars, nnVars, viewVars, mapVars>>

notDet == <<trkVars, guiVars, pipeVars, tensorVars, cnnVars, estVars, nnVars,
            viewVars, mapVars>>

notCnn == <<nmsVars, trkVars, guiVars, pipeVars, tensorVars, detVars,
            estVars, nnVars, viewVars, mapVars>>

notEst == <<nmsVars, trkVars, guiVars, pipeVars, tensorVars, detVars,
            cnnVars, nnVars, viewVars, mapVars>>

notNn == <<nmsVars, trkVars, guiVars, pipeVars, tensorVars, detVars, cnnVars,
           estVars, viewVars, mapVars>>

notView == <<nmsVars, trkVars, guiVars, pipeVars, tensorVars, detVars,
             cnnVars, estVars, nnVars, mapVars>>

notMap == <<nmsVars, trkVars, guiVars, pipeVars, tensorVars, detVars,
            cnnVars, estVars, nnVars, viewVars>>

----------------------------------------------------------------------------
(* Bounds and value domains                                                *)

MaxDets == 3

ConfLevels == {1, 2}

DEFAULT_IOU_THRESH == 3

ThreshValues == {0, DEFAULT_IOU_THRESH, 5}

\* A: 1x1 at the origin; B: A scaled by 1.5; C: 1x1, disjoint from A and B
RectSeq == << [xc |-> 0,  yc |-> 0, w |-> 2, h |-> 2],
              [xc |-> 0,  yc |-> 0, w |-> 3, h |-> 3],
              [xc |-> 10, yc |-> 0, w |-> 2, h |-> 2] >>

\* keypoint lists: none, or one keypoint placed relative to the box
KeypointsOf(rect, n) ==
    [i \in 1..n |-> [x |-> rect.xc + 1, y |-> rect.w]]

KeypointCounts == {0, 1}

\* every RawDetection value of the model
DetSeq ==
    LET nr == Len(RectSeq)
        nk == Cardinality(KeypointCounts)
    IN  [k \in 1..(Cardinality(ConfLevels) * nr * nk) |->
            LET rect == RectSeq[1 + (((k - 1) \div nk) % nr)]
            IN  [ confidence |-> 1 + ((k - 1) \div (nr * nk)),
                  rect       |-> rect,
                  keypoints  |-> KeypointsOf(rect, (k - 1) % nk) ]]

\* The lists handed to process(), one per multiset of detections: process()
\* sorts its input first and the outcomes of the unstable sort do not depend
\* on the order the elements arrive in.
InputLists ==
    { [i \in DOMAIN c |-> DetSeq[c[i]]] :
        c \in { d \in UNION { [1..n -> DOMAIN DetSeq] : n \in 0..MaxDets } :
                  \A i \in 1..(Len(d) - 1) : d[i] <= d[i + 1] } }

----------------------------------------------------------------------------
(* Arithmetic helpers                                                      *)

Max(a, b) == IF a >= b THEN a ELSE b

Min(a, b) == IF a <= b THEN a ELSE b

Abs(a) == IF a < 0 THEN -a ELSE a

RECURSIVE Gcd(_, _)
Gcd(a, b) == IF b = 0 THEN a ELSE Gcd(b, a % b)

\* The f32 quotient n / d as an exact rational <<p, q>> in lowest terms;
\* <<0, 0>> is NaN and <<1, 0>>, <<-1, 0>> are the infinities.
FDiv(n, d) ==
    IF d = 0 THEN <<IF n > 0 THEN 1 ELSE IF n < 0 THEN -1 ELSE 0, 0>>
    ELSE LET g == Gcd(Abs(n), Abs(d))
             s == IF d < 0 THEN -1 ELSE 1
         IN  <<(s * n) \div g, (s * d) \div g>>

RECURSIVE SumSeq(_)
SumSeq(s) == IF s = <<>> THEN 0 ELSE Head(s) + SumSeq(Tail(s))

----------------------------------------------------------------------------
(* BoundingRect::iou                                                       *)

\* Corner form (x1, y1, x2, y2) of a center-form rect, in doubled units.
X1(r) == 2 * r.xc - r.w
X2(r) == 2 * r.xc + r.w
Y1(r) == 2 * r.yc - r.h
Y2(r) == 2 * r.yc + r.h

Area(r) == (X2(r) - X1(r)) * (Y2(r) - Y1(r))

Intersection(a, b) ==
    Max(0, Min(X2(a), X2(b)) - Max(X1(a), X1(b)))
  * Max(0, Min(Y2(a), Y2(b)) - Max(Y1(a), Y1(b)))

Union(a, b) == Area(a) + Area(b) - Intersection(a, b)

\* iou as the pair <<numerator, denominator>>; zero-area rects yield 0.
Iou(a, b) ==
    IF Union(a, b) = 0 THEN <<0, 1>> ELSE <<Intersection(a, b), Union(a, b)>>

\* nms.rs: `iou >= self.iou_thresh`, with iou_thresh counted in tenths
IouGe(a, b, th) == Iou(a, b)[1] * 10 >= th * Iou(a, b)[2]

----------------------------------------------------------------------------
(* NonMaxSuppression                                                       *)

\* sort_unstable_by_key(|det| TotalF32(det.confidence)): any permutation of
\* the input that is ascending in confidence (ties in any order).
Perms ==
    [n \in 0..MaxDets |->
        { f \in [1..n -> 1..n] : \A i, j \in 1..n : i # j => f[i] # f[j] }]

\* variant: sorted by descending confidence
SortedPermsDesc(s) ==
    LET n == Len(s)
        P == { f \in Perms[n] :
                 \A i \in 1..(n - 1) : s[f[i]].confidence >= s[f[i + 1]].confidence }
    IN  { [i \in 1..n |-> s[f[i]]] : f \in P }

SortedPerms(s) ==
    LET n == Len(s)
        P == { f \in Perms[n] :
                 \A i \in 1..(n - 1) : s[f[i]].confidence <= s[f[i + 1]].confidence }
    IN  { [i \in 1..n |-> s[f[i]]] : f \in P }

Front(s) == SubSeq(s, 1, Len(s) - 1)

Last(s) == s[Len(s)]

\* variant: `iou > thresh` instead of `iou >= thresh`
RetainedStrict(seed, rest, th) ==
    SelectSeq(rest, LAMBDA other :
        Iou(seed.rect, other.rect)[1] * 10 <= th * Iou(seed.rect, other.rect)[2])

\* variant: the closure's results swapped (keeps the overlapping detections)
RetainedInverted(seed, rest, th) ==
    SelectSeq(rest, LAMBDA other : IouGe(seed.rect, other.rect, th))

\* variant: retain removes nothing from the list
RetainedAll(seed, rest, th) == rest

\* detections.retain(|other| !(iou >= thresh))
Retained(seed, rest, th) ==
    SelectSeq(rest, LAMBDA other : ~IouGe(seed.rect, other.rect, th))

\* the detections removed by retain, in order (pushed to avg_buf in Average mode)
Removed(seed, rest, th) ==
    SelectSeq(rest, LAMBDA other : IouGe(seed.rect, other.rect, th))

\* accumulator of the averaging loop: acc.keypoints, acc_rect, divisor
AccInit ==
    [ keypoints |-> <<>>,
      rect      |-> [xc |-> 0, yc |-> 0, w |-> 0, h |-> 0],
      divisor   |-> 0,
      panic     |-> FALSE ]

\* variant: every member weighs the same (factor = 1)
AccStepUnweighted(acc, det) ==
    LET kps == IF acc.keypoints = <<>> /\ det.keypoints # <<>>
               THEN [i \in 1..Len(det.keypoints) |-> [x |-> 0, y |-> 0]]
               ELSE acc.keypoints
    IN  IF acc.panic \/ Len(kps) # Len(det.keypoints)
        THEN [acc EXCEPT !.panic = TRUE]
        ELSE [ keypoints |-> [i \in 1..Len(kps) |->
                                [x |-> kps[i].x + det.keypoints[i].x,
                                 y |-> kps[i].y + det.keypoints[i].y]],
               rect      |-> [xc |-> acc.rect.xc + det.rect.xc,
                              yc |-> acc.rect.yc + det.rect.yc,
                              w  |-> acc.rect.w  + det.rect.w,
                              h  |-> acc.rect.h  + det.rect.h],
               divisor   |-> acc.divisor + 1,
               panic     |-> FALSE ]

\* one iteration of `for det in &self.avg_buf`
AccStep(acc, det) ==
    LET kps == IF acc.keypoints = <<>> /\ det.keypoints # <<>>
               THEN [i \in 1..Len(det.keypoints) |-> [x |-> 0, y |-> 0]]
               ELSE acc.keypoints
        factor == det.confidence
    IN  IF acc.panic \/ Len(kps) # Len(det.keypoints)
        THEN [acc EXCEPT !.panic = TRUE]
        ELSE [ keypoints |-> [i \in 1..Len(kps) |->
                                [x |-> kps[i].x + det.keypoints[i].x * factor,
                                 y |-> kps[i].y + det.keypoints[i].y * factor]],
               rect      |-> [xc |-> acc.rect.xc + det.rect.xc * factor,
                              yc |-> acc.rect.yc + det.rect.yc * factor,
                              w  |-> acc.rect.w  + det.rect.w  * factor,
                              h  |-> acc.rect.h  + det.rect.h  * factor],
               divisor   |-> acc.divisor + factor,
               panic     |-> FALSE ]

RECURSIVE Accumulate(_, _)
Accumulate(acc, buf) ==
    IF buf = <<>> THEN acc ELSE Accumulate(AccStep(acc, Head(buf)), Tail(buf))

\* the detection pushed to out_buf in Average mode
Averaged(seed, acc) ==
    [ confidence |-> seed.confidence,
      rect       |-> [xc |-> FDiv(acc.rect.xc, acc.divisor),
                      yc |-> FDiv(acc.rect.yc, acc.divisor),
                      w  |-> FDiv(acc.rect.w,  acc.divisor),
                      h  |-> FDiv(acc.rect.h,  acc.divisor)],
      keypoints  |-> [i \in 1..Len(acc.keypoints) |->
                        [x |-> FDiv(acc.keypoints[i].x, acc.divisor),
                         y |-> FDiv(acc.keypoints[i].y, acc.divisor)]] ]

SetIouThresh(th) ==
    /\ npc = "idle"
    /\ iou_thresh' = th
    /\ UNCHANGED <<mode, avg_buf, out_buf, detections, npc, nmsInput, rounds>>
    /\ UNCHANGED notNms

SetMode(m) ==
    /\ npc = "idle"
    /\ mode' = m
    /\ UNCHANGED <<iou_thresh, avg_buf, out_buf, detections, npc, nmsInput, rounds>>
    /\ UNCHANGED notNms

\* entry of process(): out_buf.clear(); sort
ProcessBegin ==
    /\ npc = "idle"
    /\ \E input \in InputLists :
         /\ detections' \in SortedPerms(input)
         /\ nmsInput' = input
    /\ out_buf' = <<>>
    /\ rounds' = <<>>
    /\ npc' = "loop"
    /\ UNCHANGED <<iou_thresh, mode, avg_buf>>
    /\ UNCHANGED notNms

\* one iteration of `while let Some(seed) = detections.pop()`, Remove arm
RoundRemove ==
    /\ npc = "loop" /\ detections # <<>> /\ mode = "Remove"
    /\ LET seed == Last(detections)
           rest == Front(detections)
       IN  /\ detections' = Retained(seed, rest, iou_thresh)
           /\ out_buf' = Append(out_buf, seed)
           /\ rounds' = Append(rounds, [seed |-> seed, before |-> rest,
                                        members |-> <<seed>> \o Removed(seed, rest, iou_thresh),
                                        emitted |-> seed])
    /\ UNCHANGED <<iou_thresh, mode, avg_buf, npc, nmsInput>>
    /\ UNCHANGED notNms

\* one iteration of the while loop, Average arm
RoundAverage ==
    /\ npc = "loop" /\ detections # <<>> /\ mode = "Average"
    /\ \E seed \in {Last(detections)}, rest \in {Front(detections)} :
       \E buf \in {<<seed>> \o Removed(seed, rest, iou_thresh)} :
       \E acc \in {Accumulate(AccInit, buf)} :
           /\ detections' = Retained(seed, rest, iou_thresh)
           /\ avg_buf' = buf
           /\ IF acc.panic
              THEN /\ npc' = "panicked"
                   /\ UNCHANGED <<out_buf, rounds>>
              ELSE /\ npc' = npc
                   /\ out_buf' = Append(out_buf, Averaged(seed, acc))
                   /\ rounds' = Append(rounds, [seed |-> seed, before |-> rest,
                                                members |-> buf,
                                                emitted |-> Averaged(seed, acc)])
    /\ UNCHANGED <<iou_thresh, mode, nmsInput>>
    /\ UNCHANGED notNms

\* loop exit: avg_buf.clear(); return out_buf.drain(..)
ProcessEnd ==
    /\ npc = "loop" /\ detections = <<>>
    /\ avg_buf' = <<>>
    /\ npc' = "drain"
    /\ UNCHANGED <<iou_thresh, mode, out_buf, detections, nmsInput, rounds>>
    /\ UNCHANGED notNms

\* the caller consumes (or drops) the Drain iterator: out_buf is left empty
DrainDone ==
    /\ npc = "drain"
    /\ out_buf' = <<>>
    /\ nmsInput' = <<>>
    /\ rounds' = <<>>
    /\ npc' = "idle"
    /\ UNCHANGED <<iou_thresh, mode, avg_buf, detections>>
    /\ UNCHANGED notNms

----------------------------------------------------------------------------
(* Image views and the LandmarkTracker                                     *)

\* Option values: None, or Some(v) with the value Val(o)
None == <<>>

Some(v) == <<v>>

Val(o) == o[1]

FrameW == 4

FrameH == 4

\* Image::rect(): the frame, positioned at (0, 0)
ImageRect == [x |-> 0, y |-> 0, w |-> FrameW, h |-> FrameH]

\* Rect::intersection: the common area of two rects, None if there is none
RectIntersection(a, b) ==
    LET x1 == Max(a.x, b.x)
        y1 == Max(a.y, b.y)
        x2 == Min(a.x + a.w, b.x + b.w)
        y2 == Min(a.y + a.h, b.y + b.h)
    IN  IF x2 <= x1 \/ y2 <= y1 THEN None
        ELSE [x |-> x1, y |-> y1, w |-> x2 - x1, h |-> y2 - y1]

\* Image::view(rect): the area of the frame the view covers; the rect is
\* clipped to the frame first, and a rect fully outside gives an empty view
ImageView(rect) ==
    LET clipped == RectIntersection(ImageRect, rect)
    IN  IF clipped = None THEN [x |-> 0, y |-> 0, w |-> 0, h |-> 0] ELSE clipped

\* face confidence in tenths; LandmarkTracker's default loss threshold is 0.5
DEFAULT_LOSS_THRESH == 5

FaceConfidences == {3, DEFAULT_LOSS_THRESH, 8}

NumLandmarks == 2

\* landmark positions as Landmarker::compute reports them: pixels of the
\* image it was given, i.e. relative to the top-left corner of the view
LandmarkCoords == {0, 1}

LandmarkSets == [1..NumLandmarks -> [x : LandmarkCoords, y : LandmarkCoords]]

\* the faces a caller hands to set_tracked_face: inside the frame, sticking
\* out at the left/top, sticking out at the right/bottom, fully outside
FaceRects == { [x |-> 1,  y |-> 1,  w |-> 2, h |-> 2],
               [x |-> -1, y |-> -1, w |-> 3, h |-> 3],
               [x |-> 3,  y |-> 2,  w |-> 3, h |-> 3],
               [x |-> 6,  y |-> 0,  w |-> 2, h |-> 2] }

\* rotation estimates handed to TrackedFace::new (quarter turns)
Rotations == {0}

\* Rect::bounding over the landmarks, moved by the origin (ox, oy)
BoundingOf(lms, ox, oy) ==
    LET xs == { lms[i].x : i \in DOMAIN lms }
        ys == { lms[i].y : i \in DOMAIN lms }
        minx == CHOOSE v \in xs : \A u \in xs : v <= u
        maxx == CHOOSE v \in xs : \A u \in xs : v >= u
        miny == CHOOSE v \in ys : \A u \in ys : v <= u
        maxy == CHOOSE v \in ys : \A u \in ys : v >= u
    IN  [x |-> ox + minx, y |-> oy + miny, w |-> maxx - minx + 1, h |-> maxy - miny + 1]

\* variant: a confidence equal to the threshold also loses the track
TrackLostAtThreshold(conf) == conf <= DEFAULT_LOSS_THRESH

\* variant: the track is never given up
TrackNeverLost(conf) == FALSE

\* the threshold test of track(): the track is lost below the threshold
TrackLost(conf) == conf < DEFAULT_LOSS_THRESH

\* the rect track() reports with its result (`view_rect`): the ROI it
\* asked the view for
ViewRect(roi) == roi.rect

\* LandmarkTracker::set_tracked_face
SetTrackedFace(rect, rot) ==
    /\ trk_pc = "ready"
    /\ trk_roi' = Some([rect |-> rect, rot |-> rot])
    /\ trk_held' = TRUE
    /\ trk_last' = [op |-> "set", tracking |-> trk_roi # None, conf |-> None, ret |-> "unit"]
    /\ trk_res' = None      \* a returned result borrows the tracker: it is gone by now
    /\ UNCHANGED <<trk_dropped, trk_pc>>
    /\ UNCHANGED notTrk

\* LandmarkTracker::track with no tracked face
TrackUntracked ==
    /\ trk_pc = "ready"
    /\ trk_roi = None
    /\ trk_res' = None
    /\ trk_last' = [op |-> "track", tracking |-> FALSE, conf |-> None, ret |-> "none"]
    /\ UNCHANGED <<trk_roi, trk_held, trk_dropped, trk_pc>>
    /\ UNCHANGED notTrk

\* LandmarkTracker::track on an ROI fully outside the frame: the view is
\* empty and Landmarker::compute panics in ImageView::resolution
TrackEmptyView ==
    /\ trk_pc = "ready"
    /\ trk_roi # None
    /\ ImageView(Val(trk_roi).rect).w = 0
    /\ trk_pc' = "panicked"
    /\ trk_last' = [op |-> "track", tracking |-> TRUE, conf |-> None, ret |-> "panic"]
    /\ UNCHANGED <<trk_roi, trk_res, trk_held, trk_dropped>>
    /\ UNCHANGED notTrk

\* LandmarkTracker::track while tracking: view at the ROI, landmarker,
\* confidence check, ROI update
TrackTracking ==
    /\ trk_pc = "ready"
    /\ trk_roi # None
    /\ ImageView(Val(trk_roi).rect).w > 0
    /\ \E conf \in FaceConfidences :
         LET roi  == Val(trk_roi)
             view == ImageView(roi.rect)
             vr   == ViewRect(roi)
         IN  /\ IF TrackLost(conf)
                THEN /\ trk_roi' = None
                     /\ trk_res' = None
                     /\ trk_last' = [op |-> "track", tracking |-> TRUE,
                                     conf |-> Some(conf), ret |-> "none"]
                ELSE \E lms \in LandmarkSets :
                     /\ trk_roi' = Some([rect |-> BoundingOf(lms, vr.x, vr.y),
                                         rot |-> roi.rot])
                     /\ trk_res' = Some([landmarks |-> lms, view_rect |-> vr,
                                         confidence |-> conf,
                                         view_origin |-> [x |-> view.x, y |-> view.y]])
                     /\ trk_last' = [op |-> "track", tracking |-> TRUE,
                                     conf |-> Some(conf), ret |-> "some"]
             \* history: what the landmarker saw, whatever track() made of it
             /\ trk_held' = (trk_held /\ conf >= DEFAULT_LOSS_THRESH)
             /\ trk_dropped' = (trk_dropped \/ conf < DEFAULT_LOSS_THRESH)
    /\ UNCHANGED trk_pc
    /\ UNCHANGED notTrk

----------------------------------------------------------------------------
(* GUI bridge: show_image, send, start_gui, Gui::run                       *)

Threads == {1, 2}

Keys == {"a", "b"}

MaxFrames == 3

\* variant: a bounded event queue, send_event waits while it is full
CanSendBounded(q) == Len(q) < 1

\* EventLoopProxy::send_event never waits: the event queue is unbounded
CanSend(q) == TRUE

\* variant: latest frame per key wins, older pending frames of the key go
EnqueueLatest(q, msg) == Append(SelectSeq(q, LAMBDA m : m.key # msg.key), msg)

\* send_event(msg): the message is appended to the event loop's queue
Enqueue(q, msg) == Append(q, msg)

InitGui ==
    /\ sender_cell = "uninit"
    /\ sender_lock = 0
    /\ c_pc = [t \in Threads |-> "idle"]
    /\ c_msg = [t \in Threads |-> None]
    /\ g_pc = "none"
    /\ evq = <<>>
    /\ windows = [k \in Keys |-> 0]
    /\ redraw = {}
    /\ screen = [k \in Keys |-> 0]
    /\ sentLog = <<>>
    /\ handled = <<>>
    /\ nframes = 0

\* show_image(key, image): copy the image data, build the message, call send;
\* frame numbers the calls, from records the calling thread (history)
ShowImage(t, key) ==
    /\ c_pc[t] = "idle"
    /\ nframes < MaxFrames
    /\ nframes' = nframes + 1
    /\ c_msg' = [c_msg EXCEPT ![t] = Some([key |-> key, frame |-> nframes + 1, from |-> t])]
    /\ c_pc' = [c_pc EXCEPT ![t] = "get_or_init"]
    /\ UNCHANGED <<sender_cell, sender_lock, g_pc, evq, windows, redraw, screen,
                   sentLog, handled>>
    /\ UNCHANGED notGui

\* SENDER.get_or_init, cell already initialised
GetSender(t) ==
    /\ c_pc[t] = "get_or_init"
    /\ sender_cell = "done"
    /\ c_pc' = [c_pc EXCEPT ![t] = "lock"]
    /\ UNCHANGED <<sender_cell, sender_lock, c_msg, g_pc, evq, windows, redraw, screen,
                   sentLog, handled, nframes>>
    /\ UNCHANGED notGui

\* SENDER.get_or_init, cell empty: this thread runs the initialiser
\* start_gui, which spawns the "gui" thread and then waits in recv()
StartGui(t) ==
    /\ c_pc[t] = "get_or_init"
    /\ sender_cell = "uninit"
    /\ sender_cell' = "running"
    /\ g_pc' = "build"
    /\ c_pc' = [c_pc EXCEPT ![t] = "recv_proxy"]
    /\ UNCHANGED <<sender_lock, c_msg, evq, windows, redraw, screen,
                   sentLog, handled, nframes>>
    /\ UNCHANGED notGui

\* "gui" thread: build the event loop and create the proxy
GuiBuild ==
    /\ g_pc = "build"
    /\ g_pc' = "send_proxy"
    /\ UNCHANGED <<sender_cell, sender_lock, c_pc, c_msg, evq, windows, redraw, screen,
                   sentLog, handled, nframes>>
    /\ UNCHANGED notGui

\* sender.send(proxy) meets recv.recv() on the sync_channel(0); start_gui
\* returns and the cell is set
RecvProxy(t) ==
    /\ c_pc[t] = "recv_proxy"
    /\ g_pc = "send_proxy"
    /\ g_pc' = "gui_new"
    /\ sender_cell' = "done"
    /\ c_pc' = [c_pc EXCEPT ![t] = "lock"]
    /\ UNCHANGED <<sender_lock, c_msg, evq, windows, redraw, screen,
                   sentLog, handled, nframes>>
    /\ UNCHANGED notGui

\* "gui" thread: Gui::new() opens the GPU, then the event loop runs
GuiNew ==
    /\ g_pc = "gui_new"
    /\ g_pc' = "run"
    /\ UNCHANGED <<sender_cell, sender_lock, c_pc, c_msg, evq, windows, redraw, screen,
                   sentLog, handled, nframes>>
    /\ UNCHANGED notGui

\* .lock().unwrap()
LockSender(t) ==
    /\ c_pc[t] = "lock"
    /\ sender_lock = 0
    /\ sender_lock' = t
    /\ c_pc' = [c_pc EXCEPT ![t] = "send_event"]
    /\ UNCHANGED <<sender_cell, c_msg, g_pc, evq, windows, redraw, screen,
                   sentLog, handled, nframes>>
    /\ UNCHANGED notGui

\* .send_event(msg); the guard is dropped and show_image returns
SendEvent(t) ==
    /\ c_pc[t] = "send_event"
    /\ CanSend(evq)
    /\ evq' = Enqueue(evq, Val(c_msg[t]))
    /\ sentLog' = Append(sentLog, Val(c_msg[t]))
    /\ sender_lock' = 0
    /\ c_msg' = [c_msg EXCEPT ![t] = None]
    /\ c_pc' = [c_pc EXCEPT ![t] = "idle"]
    /\ UNCHANGED <<sender_cell, g_pc, windows, redraw, screen, handled, nframes>>
    /\ UNCHANGED notGui

\* Gui::run, Event::UserEvent(Msg::Image): window created on first use of
\* the key, texture updated, redraw requested
GuiHandleImage ==
    /\ g_pc = "run"
    /\ evq # <<>>
    /\ LET msg == Head(evq)
       IN  /\ windows' = [windows EXCEPT ![msg.key] = msg.frame]
           /\ redraw' = redraw \cup {msg.key}
           /\ handled' = Append(handled, msg)
    /\ evq' = Tail(evq)
    /\ UNCHANGED <<sender_cell, sender_lock, c_pc, c_msg, g_pc, screen, sentLog, nframes>>
    /\ UNCHANGED notGui

\* Gui::run, Event::RedrawRequested(window)
GuiRedraw(k) ==
    /\ g_pc = "run"
    /\ k \in redraw
    /\ screen' = [screen EXCEPT ![k] = windows[k]]
    /\ redraw' = redraw \ {k}
    /\ UNCHANGED <<sender_cell, sender_lock, c_pc, c_msg, g_pc, evq, windows,
                   sentLog, handled, nframes>>
    /\ UNCHANGED notGui

\* the steps thread t takes inside a show_image call
CallerStep(t) == GetSender(t) \/ StartGui(t) \/ RecvProxy(t) \/ LockSender(t) \/ SendEvent(t)

----------------------------------------------------------------------------
(* main: "Webcam Decoder" and "Face Detector" threads                      *)

MaxReads == 4

DetectionCounts == {0, 1}

\* variant: the frame handed to send() is lost
DeliverDrop(log, frame) == log

\* img_sender.send(image) completes: the receiver has the frame
Deliver(log, frame) == Append(log, frame)

InitPipe ==
    /\ w_pc = "read"
    /\ w_frame = 0
    /\ d_pc = "recv"
    /\ d_frame = 0
    /\ nread = 0
    /\ delivered = <<>>
    /\ shownLog = <<>>

\* webcam.read() returns a frame
WebcamRead ==
    /\ w_pc = "read"
    /\ nread < MaxReads
    /\ nread' = nread + 1
    /\ w_frame' = nread + 1
    /\ w_pc' = "send"
    /\ UNCHANGED <<d_pc, d_frame, delivered, shownLog>>
    /\ UNCHANGED notPipe

\* webcam.read() fails: the loop breaks and the thread ends.  img_sender
\* is borrowed from main and stays alive until crossbeam::scope returns.
WebcamReadFail ==
    /\ w_pc = "read"
    /\ w_pc' = "done"
    /\ UNCHANGED <<w_frame, d_pc, d_frame, nread, delivered, shownLog>>
    /\ UNCHANGED notPipe

\* img_sender.send(image) on the bounded(0) channel: completes only while
\* the detector thread waits in the channel's iterator, and hands it the frame
WebcamSend ==
    /\ w_pc = "send"
    /\ d_pc = "recv"
    /\ delivered' = Deliver(delivered, w_frame)
    /\ d_frame' = w_frame
    /\ d_pc' = "detect"
    /\ w_pc' = "read"
    /\ UNCHANGED <<w_frame, nread, shownLog>>
    /\ UNCHANGED notPipe

\* img_sender.send(image) fails: the receiver is gone (the detector thread
\* has panicked and dropped img_recv); the loop breaks
WebcamSendErr ==
    /\ w_pc = "send"
    /\ d_pc = "panicked"
    /\ w_pc' = "done"
    /\ UNCHANGED <<w_frame, d_pc, d_frame, nread, delivered, shownLog>>
    /\ UNCHANGED notPipe

\* detector.detect(&image) and drawing of the detections
DetectorDetect(n) ==
    /\ d_pc = "detect"
    /\ d_pc' = "show"
    /\ shownLog' = Append(shownLog, [frame |-> d_frame, detections |-> n])
    /\ UNCHANGED <<w_pc, w_frame, d_frame, nread, delivered>>
    /\ UNCHANGED notPipe

\* detector.detect(&image) panics (estimate(..).unwrap())
DetectorPanic ==
    /\ d_pc = "detect"
    /\ d_pc' = "panicked"
    /\ UNCHANGED <<w_pc, w_frame, d_frame, nread, delivered, shownLog>>
    /\ UNCHANGED notPipe

\* gui::show_image("face_detect", &image); back to the channel's iterator
DetectorShow ==
    /\ d_pc = "show"
    /\ d_pc' = "recv"
    /\ UNCHANGED <<w_pc, w_frame, d_frame, nread, delivered, shownLog>>
    /\ UNCHANGED notPipe

WebcamStep == WebcamRead \/ WebcamReadFail \/ WebcamSend \/ WebcamSendErr

----------------------------------------------------------------------------
(* nn::tensor: Layout, ShapeIndices, Tensor, TensorView                    *)

MaxRank == 2

DimSizes == {0, 1, 2}

IndexValues == {0, 1, 2}

\* shapes of rank 0..MaxRank
Shapes == UNION {[1..n -> DimSizes] : n \in 0..MaxRank}

\* index lists of up to MaxRank + 1 entries, in range or not
IndexLists == UNION {[1..n -> IndexValues] : n \in 0..(MaxRank + 1)}

\* the producers f: one computes its value from the index it is given, one
\* ignores the index and counts its calls
Producers == {"by_index", "by_call"}

RECURSIVE Product(_)
\* shape.iter().product()
Product(s) == IF s = <<>> THEN 1 ELSE s[1] * Product(Tail(s))

RECURSIVE IndexCode(_)
\* the value the producer "by_index" makes of an index
IndexCode(idx) == IF idx = <<>> THEN 7 ELSE IndexCode(Front(idx)) * 10 + Last(idx)

\* f(indices) at its n-th call
Produce(kind, idx, n) == IF kind = "by_index" THEN IndexCode(idx) ELSE n

\* the sequence s with position j set to v
SetAt(s, j, v) == [i \in 1..Len(s) |-> IF i = j THEN v ELSE s[i]]

RECURSIVE StridesLoop(_, _, _, _)
\* the loop of Layout::from_shape: positions i down to 1, running stride
StridesLoop(shape, i, stride, out) ==
    IF i = 0 THEN out
    ELSE StridesLoop(shape, i - 1, stride * shape[i], SetAt(out, i, stride))

\* variant: strides computed from the front (column-major)
LayoutFromShapeColMajor(shape) ==
    [shape |-> shape,
     strides |-> [i \in 1..Len(shape) |-> Product(SubSeq(shape, 1, i - 1))]]

\* Layout::from_shape
LayoutFromShape(shape) ==
    [shape |-> shape,
     strides |-> StridesLoop(shape, Len(shape), 1, [i \in 1..Len(shape) |-> 0])]

\* variant: the strides of the leading dimensions are kept
RemovePrefixKeepStrides(layout, num) ==
    [shape |-> SubSeq(layout.shape, num + 1, Len(layout.shape)),
     strides |-> SubSeq(layout.strides, 1, Len(layout.shape) - num)]

\* Layout::remove_prefix
RemovePrefix(layout, num) ==
    [shape |-> SubSeq(layout.shape, num + 1, Len(layout.shape)),
     strides |-> SubSeq(layout.strides, num + 1, Len(layout.strides))]

RECURSIVE Advance(_, _, _)
\* the reversed loop of ShapeIndices::next from position j down:
\* the new index vector and has_next
Advance(last, shape, j) ==
    IF j = 0 THEN <<last, FALSE>>
    ELSE IF last[j] = shape[j] - 1
         THEN Advance(SetAt(last, j, 0), shape, j - 1)
         ELSE <<SetAt(last, j, last[j] + 1), TRUE>>

\* variant: the rank-0 shape is taken for an empty one
IndicesNextScalarEmpty(shape, st) ==
    IF st.first
    THEN <<IF shape = <<>> \/ \E j \in 1..Len(shape) : shape[j] = 0
           THEN None ELSE Some(st.last),
           [st EXCEPT !.first = FALSE]>>
    ELSE LET adv == Advance(st.last, shape, Len(shape))
         IN  <<IF adv[2] THEN Some(adv[1]) ELSE None, [st EXCEPT !.last = adv[1]]>>

\* ShapeIndices::next on the iterator state st = [last, first]:
\* the index yielded (or None) and the state afterwards
IndicesNext(shape, st) ==
    IF st.first
    THEN <<IF \E j \in 1..Len(shape) : shape[j] = 0 THEN None ELSE Some(st.last),
           [st EXCEPT !.first = FALSE]>>
    ELSE LET adv == Advance(st.last, shape, Len(shape))
         IN  <<IF adv[2] THEN Some(adv[1]) ELSE None, [st EXCEPT !.last = adv[1]]>>

RECURSIVE IndicesFold(_, _, _)
\* ShapeIndices::fold: the indices the closure is called with, in order
IndicesFold(shape, st, calls) ==
    LET nx == IndicesNext(shape, st)
    IN  IF nx[1] = None THEN calls
        ELSE IndicesFold(shape, nx[2], Append(calls, Val(nx[1])))

\* ShapeIndices::new(shape, [0; N]) folded
IndicesOf(shape) ==
    IndicesFold(shape, [last |-> [i \in 1..Len(shape) |-> 0], first |-> TRUE], <<>>)

\* Tensor::from_array_shape_fn / from_dyn_shape_fn: data.push(f(indices))
\* for every index yielded, then the layout of the shape
FromShapeFn(shape, kind) ==
    [layout |-> LayoutFromShape(shape),
     data |-> [n \in 1..Len(IndicesOf(shape)) |-> Produce(kind, IndicesOf(shape)[n], n)]]

RECURSIVE SliceLoopFromStart(_, _, _, _)
\* variant: every slice starts at 0
SliceLoopFromStart(data, strides, indices, j) ==
    IF j > Min(Len(strides), Len(indices)) THEN Some(data)
    ELSE IF strides[j] > Len(data) THEN None
         ELSE SliceLoopFromStart(SubSeq(data, 1, strides[j]), strides, indices, j + 1)

RECURSIVE SliceLoop(_, _, _, _)
\* the loop of index(): data = &data[index * stride..(index + 1) * stride]
\* over zip(strides, indices) from position j; None when the slice panics
SliceLoop(data, strides, indices, j) ==
    IF j > Min(Len(strides), Len(indices)) THEN Some(data)
    ELSE LET lo == indices[j] * strides[j]
             hi == (indices[j] + 1) * strides[j]
         IN  IF hi > Len(data) THEN None
             ELSE SliceLoop(SubSeq(data, lo + 1, hi), strides, indices, j + 1)

\* Tensor::index / TensorView::index on an object [layout, data]:
\* the view, or None when the call panics
IndexOp(obj, indices) ==
    IF Len(indices) > Len(obj.layout.shape) THEN None
    ELSE LET d == SliceLoop(obj.data, obj.layout.strides, indices, 1)
         IN  IF d = None THEN None
             ELSE Some([layout |-> RemovePrefix(obj.layout, Len(indices)), data |-> Val(d)])

\* variant: iteration over the innermost dimension's extent
IterOpLastDim(obj) ==
    IF Len(obj.layout.shape) = 0 THEN None
    ELSE LET n == obj.layout.shape[Len(obj.layout.shape)]
         IN  IF \E i \in 1..n : IndexOp(obj, <<i - 1>>) = None THEN None
             ELSE Some([i \in 1..n |-> Val(IndexOp(obj, <<i - 1>>))])

\* Tensor::iter / TensorView::iter, consumed to the end: the views
\* yielded, or None when the call or an item panics
IterOp(obj) ==
    IF Len(obj.layout.shape) = 0 THEN None
    ELSE LET n == obj.layout.shape[1]
         IN  IF \E i \in 1..n : IndexOp(obj, <<i - 1>>) = None THEN None
             ELSE Some([i \in 1..n |-> Val(IndexOp(obj, <<i - 1>>))])

\* variant: no rank check
AsSliceOpAnyRank(obj) == Some(obj.data)

\* as_slice: the data, or None when the rank is not 1
AsSliceOp(obj) == IF Len(obj.layout.shape) # 1 THEN None ELSE Some(obj.data)

\* as_singular: data[0], or None when the call panics
AsSingularOp(obj) ==
    IF Len(obj.layout.shape) # 0 \/ Len(obj.data) = 0 THEN None ELSE Some(obj.data[1])

InitTensor ==
    /\ tn_pc = "none"
    /\ tn_shape = <<>>
    /\ tn_kind = "by_index"
    /\ tn_ctor = "none"
    /\ tn_tensor = None
    /\ tn_calls = <<>>
    /\ tn_view = None
    /\ tn_path = <<>>
    /\ tn_op = [op |-> "none", on |-> None, args |-> <<>>, result |-> None]

\* Tensor::from_array_shape_fn(shape, f)
FromArrayShapeFn(shape, kind) ==
    /\ tn_pc = "none"
    /\ tn_shape' = shape
    /\ tn_kind' = kind
    /\ tn_ctor' = "array"
    /\ tn_tensor' = Some(FromShapeFn(shape, kind))
    /\ tn_calls' = IndicesOf(shape)
    /\ tn_pc' = "built"
    /\ UNCHANGED <<tn_view, tn_path, tn_op>>
    /\ UNCHANGED notTensor

\* Tensor::from_dyn_shape_fn(shape, f)
FromDynShapeFn(shape, kind) ==
    /\ tn_pc = "none"
    /\ tn_shape' = shape
    /\ tn_kind' = kind
    /\ tn_ctor' = "dyn"
    /\ tn_tensor' = Some(FromShapeFn(shape, kind))
    /\ tn_calls' = IndicesOf(shape)
    /\ tn_pc' = "built"
    /\ UNCHANGED <<tn_view, tn_path, tn_op>>
    /\ UNCHANGED notTensor

\* the tensor or view the next call is made on
Current == IF tn_pc = "built" THEN Val(tn_tensor) ELSE Val(tn_view)

\* tensor.index(indices)
TensorIndex(indices) ==
    /\ tn_pc = "built"
    /\ LET r == IndexOp(Val(tn_tensor), indices)
       IN  /\ tn_op' = [op |-> "index", on |-> tn_tensor, args |-> indices, result |-> r]
           /\ tn_path' = <<indices>>
           /\ IF r = None
              THEN tn_pc' = "panicked" /\ UNCHANGED tn_view
              ELSE tn_pc' = "view1" /\ tn_view' = r
    /\ UNCHANGED <<tn_shape, tn_kind, tn_ctor, tn_tensor, tn_calls>>
    /\ UNCHANGED notTensor

\* view.index(indices) on the view tensor.index returned
ViewIndex(indices) ==
    /\ tn_pc = "view1"
    /\ LET r == IndexOp(Val(tn_view), indices)
       IN  /\ tn_op' = [op |-> "index", on |-> tn_view, args |-> indices, result |-> r]
           /\ tn_path' = Append(tn_path, indices)
           /\ IF r = None
              THEN tn_pc' = "panicked" /\ UNCHANGED tn_view
              ELSE tn_pc' = "view2" /\ tn_view' = r
    /\ UNCHANGED <<tn_shape, tn_kind, tn_ctor, tn_tensor, tn_calls>>
    /\ UNCHANGED notTensor

\* an accessor call on the current tensor or view, with its outcome r
Access(name, r) ==
    /\ tn_pc \in {"built", "view1", "view2"}
    /\ tn_op' = [op |-> name, on |-> Some(Current), args |-> <<>>, result |-> r]
    /\ tn_pc' = IF r = None THEN "panicked" ELSE "done"
    /\ UNCHANGED <<tn_shape, tn_kind, tn_ctor, tn_tensor, tn_calls, tn_view, tn_path>>
    /\ UNCHANGED notTensor

\* iter() consumed to the end
TensorIter == tn_pc \in {"built", "view1", "view2"} /\ Access("iter", IterOp(Current))

\* as_slice()
TensorAsSlice == tn_pc \in {"built", "view1", "view2"} /\ Access("as_slice", AsSliceOp(Current))

\* as_singular()
TensorAsSingular ==
    tn_pc \in {"built", "view1", "view2"} /\ Access("as_singular", AsSingularOp(Current))

----------------------------------------------------------------------------
(* face::detection::Detector                                               *)

NumAnchors == 2

\* Detector::DEFAULT_THRESH = 0.5, in units of 1/2
DEFAULT_THRESH == 1

\* sigmoid(logit) of an anchor: 0.0, 0.5, 1.0
AnchorConfs == {0, 1, 2}

\* what the network reports for one anchor: confidence and decoded box
AnchorOutputs == {[confidence |-> c, rect |-> RectSeq[r]] : c \in AnchorConfs, r \in DOMAIN RectSeq}

\* the network outputs for one frame, one entry per anchor
Frames == [1..NumAnchors -> AnchorOutputs]

\* variant: nothing is below the threshold
BelowThreshNever(conf) == FALSE

\* conf < self.thresh
BelowThresh(conf) == conf < DEFAULT_THRESH

\* extract_detection: the RawDetection of an anchor that passed the threshold
ExtractDetection(a) ==
    [confidence |-> a.confidence, rect |-> a.rect, keypoints |-> KeypointsOf(a.rect, 1)]

RECURSIVE FilterAnchors(_, _)
\* the loop over the anchors' confidences from anchor i on: raw_detections
FilterAnchors(frame, i) ==
    IF i > Len(frame) THEN <<>>
    ELSE IF BelowThresh(frame[i].confidence)
         THEN FilterAnchors(frame, i + 1)
         ELSE <<ExtractDetection(frame[i])>> \o FilterAnchors(frame, i + 1)

\* image.resolution() of the frames given to detect()
FullResolutions == {<<4, 3>>, <<2, 2>>}

\* variant: the buffer keeps what it held
ClearKeeps(buf) == buf

\* Vec::clear()
Clear(buf) == <<>>

InitDet ==
    /\ det_pc = "idle"
    /\ det_frame = <<>>
    /\ det_out = <<>>
    /\ det_last = [op |-> "new", estimate |-> "none", ret |-> "none",
                   full_res |-> None, prev |-> 0, mode |-> mode]

\* detect_impl up to the call of nms.process: buffers cleared, full_res
\* taken from the image (prev, mode: history, the length of the list and the
\* suppression mode as the call found them),
\* inference,
\* anchors filtered by confidence, process() entered (out_buf.clear, sort)
DetectBegin(frame) ==
    /\ det_pc = "idle"
    /\ npc = "idle"
    /\ det_frame' = frame
    /\ det_out' = Clear(det_out)
    /\ \E res \in FullResolutions :
          det_last' = [op |-> "detect", estimate |-> "ok", ret |-> "pending",
                       full_res |-> Some(res), prev |-> Len(det_out), mode |-> mode]
    /\ nmsInput' = Clear(detections) \o FilterAnchors(frame, 1)
    /\ detections' \in SortedPerms(Clear(detections) \o FilterAnchors(frame, 1))
    /\ out_buf' = <<>>
    /\ rounds' = <<>>
    /\ npc' = "loop"
    /\ det_pc' = "nms"
    /\ UNCHANGED <<iou_thresh, mode, avg_buf>>
    /\ UNCHANGED notDet

\* detect_impl when self.model.estimate(&image) returns Err: .unwrap() panics
DetectEstimateErr(frame) ==
    /\ det_pc = "idle"
    /\ npc = "idle"
    /\ det_frame' = frame
    /\ det_out' = Clear(det_out)
    /\ detections' = Clear(detections)
    /\ \E res \in FullResolutions :
          det_last' = [op |-> "detect", estimate |-> "err", ret |-> "panic",
                       full_res |-> Some(res), prev |-> Len(det_out), mode |-> mode]
    /\ det_pc' = "panicked"
    /\ UNCHANGED <<iou_thresh, mode, avg_buf, out_buf, npc, nmsInput, rounds>>
    /\ UNCHANGED notDet

\* the rest of detect_impl: the Drain of process() is pushed onto
\* self.detections with the frame's full_res, and the list is returned
DetectEnd ==
    /\ det_pc = "nms"
    /\ npc = "drain"
    /\ det_out' = det_out \o [i \in 1..Len(out_buf) |->
                                [raw |-> out_buf[i], full_res |-> Val(det_last.full_res)]]
    /\ det_last' = [det_last EXCEPT !.ret = "detections"]
    /\ out_buf' = <<>>
    /\ nmsInput' = <<>>
    /\ rounds' = <<>>
    /\ npc' = "idle"
    /\ det_pc' = "idle"
    /\ UNCHANGED det_frame
    /\ UNCHANGED <<iou_thresh, mode, avg_buf, detections>>
    /\ UNCHANGED notDet

----------------------------------------------------------------------------
(* zaru-nn: Cnn::new, Cnn::get_input_res, Cnn::input_resolution            *)

MaxInputs == 2

\* u32::MAX, the largest width or height try_into() accepts.  The widths are
\* scaled down: u32 is modelled with 3 bits, usize with more.
U32_MAX == 7

CnnDims == {1, 3, 4, U32_MAX + 1}

\* an input node's shape: concrete dimensions, or symbolic
ConcreteShape(s) == [concrete |-> TRUE, shape |-> s]

SymbolicShape == [concrete |-> FALSE, shape |-> <<>>]

\* shapes of the first input node: every rank-4 shape, a rank-3 and a
\* rank-5 shape, and a symbolic one
FirstInputShapes ==
    {ConcreteShape(s) : s \in [1..4 -> CnnDims]}
        \cup {ConcreteShape(<<1, 3, 4>>), ConcreteShape(<<1, 3, 4, 4, 1>>), SymbolicShape}

\* the networks: their input nodes' shapes, none to MaxInputs of them
Networks ==
    {<<>>} \cup
    {<<first>> \o [i \in 1..extra |-> ConcreteShape(<<1, 3, 4, 4>>)] :
        first \in FirstInputShapes, extra \in 0..(MaxInputs - 1)}

CnnInputShapes == {"NCHW", "NHWC"}

\* variant: every shape is read as NCHW
MatchShapeNchwOnly(fmt, s) ==
    IF Len(s) = 4 /\ s[1] = 1 /\ s[2] = 3
    THEN Some([w |-> s[4], h |-> s[3]])
    ELSE None

\* the match in get_input_res: (w, h) of the shape, or None for the `_` arm
MatchShape(fmt, s) ==
    IF fmt = "NCHW" /\ Len(s) = 4 /\ s[1] = 1 /\ s[2] = 3
    THEN Some([w |-> s[4], h |-> s[3]])
    ELSE IF fmt = "NHWC" /\ Len(s) = 4 /\ s[1] = 1 /\ s[4] = 3
         THEN Some([w |-> s[3], h |-> s[2]])
         ELSE None

\* Cnn::get_input_res: [tag |-> "ok", res] / "err" / "panic"
GetInputRes(net, fmt) ==
    IF Len(net) # 1 THEN [tag |-> "err", res |-> None]
    ELSE IF ~net[1].concrete THEN [tag |-> "panic", res |-> None]
    ELSE LET wh == MatchShape(fmt, net[1].shape)
         IN  IF wh = None THEN [tag |-> "err", res |-> None]
             ELSE IF Val(wh).w > U32_MAX \/ Val(wh).h > U32_MAX
                  THEN [tag |-> "err", res |-> None]
                  ELSE [tag |-> "ok", res |-> wh]

InitCnn ==
    /\ cnn_pc = "none"
    /\ cnn_net = <<>>
    /\ cnn_fmt = "NCHW"
    /\ cnn_res = None
    /\ cnn_read = None

\* Cnn::new(nn, shape, color_map)
CnnNew(net, fmt) ==
    /\ cnn_pc = "none"
    /\ cnn_net' = net
    /\ cnn_fmt' = fmt
    /\ LET r == GetInputRes(net, fmt)
       IN  /\ cnn_res' = r.res
           /\ cnn_pc' = IF r.tag = "ok" THEN "ok" ELSE IF r.tag = "err" THEN "err" ELSE "panicked"
    /\ UNCHANGED cnn_read
    /\ UNCHANGED notCnn

\* Cnn::input_resolution()
CnnInputResolution ==
    /\ cnn_pc = "ok"
    /\ cnn_read = None
    /\ cnn_read' = cnn_res
    /\ UNCHANGED <<cnn_pc, cnn_net, cnn_fmt, cnn_res>>
    /\ UNCHANGED notCnn

----------------------------------------------------------------------------
(* zaru-nn: create_linear_color_mapper, Cnn::estimate (sample, image_map)  *)

MaxSrc == 2

\* Color([r, g, b, a]) values of source pixels
SrcColors == {<<0, 128, 255, 255>>, <<255, 64, 0, 0>>}

\* the source images: a resolution and a colour per pixel (x, y)
SrcImages ==
    UNION {{[w |-> w, h |-> h, px |-> p] : p \in [(0..(w - 1)) \X (0..(h - 1)) -> SrcColors]} :
              w \in 1..MaxSrc, h \in 1..MaxSrc}

\* variant: the channels are scaled by the range but not offset by its start
LinearColorMapperNoOffset(start, end, color) ==
    [c \in 1..3 |-> color[c] * (end - start)]

\* the closure create_linear_color_mapper(start..=end) returns, on a
\* colour: col * ((end - start) / 255) + start per channel r, g, b.
\* The values are exact and counted in units of 1/255.
LinearColorMapper(start, end, color) ==
    [c \in 1..3 |-> color[c] * (end - start) + 255 * start]

\* the color_map the detectors and the landmarker give to Cnn::new
CnnColorMap(color) == LinearColorMapper(-1, 1, color)

\* f32::round of n/d for n >= 0, d > 0: to nearest, halves away from zero
RoundHalfAway(n, d) == (2 * n + d) \div (2 * d)

\* variant: the destination pixel's centre (i + 0.5) / n is sampled
SampleCoordCentre(i, n, srcN) == RoundHalfAway((2 * i + 1) * srcN, 2 * n)

\* sample(): (u * width).round() as u32 for u = i as f32 / n as f32
SampleCoord(i, n, srcN) == RoundHalfAway(i * srcN, n)

\* ImageView::get on a view covering its image: the colour, or None
\* when (x, y) is outside and the call panics
ViewGet(img, x, y) ==
    IF x < img.w /\ y < img.h THEN Some(img.px[<<x, y>>]) ELSE None

\* the shape image_map gives to Tensor::from_array_shape_fn
ImageMapShape(fmt, res) ==
    IF fmt = "NCHW" THEN <<1, 3, res.h, res.w>> ELSE <<1, res.h, res.w, 3>>

\* the closure's pattern |[_, c, y, x]| or |[_, y, x, c]| on an index
MapIndex(fmt, idx) ==
    IF fmt = "NCHW"
    THEN [c |-> idx[2], y |-> idx[3], x |-> idx[4]]
    ELSE [c |-> idx[4], y |-> idx[2], x |-> idx[3]]

\* image_map on a source image: the source coordinate sampled for every
\* index in construction order, and the tensor, or a panic at the first
\* coordinate outside the source
ImageMap(img, fmt, res) ==
    LET shape == ImageMapShape(fmt, res)
        idxs == IndicesOf(shape)
        at(n) == MapIndex(fmt, idxs[n])
        coords == [n \in 1..Len(idxs) |->
                      [x |-> at(n).x, y |-> at(n).y,
                       sx |-> SampleCoord(at(n).x, res.w, img.w),
                       sy |-> SampleCoord(at(n).y, res.h, img.h)]]
        bad == {n \in 1..Len(idxs) : ViewGet(img, coords[n].sx, coords[n].sy) = None}
    IN  IF bad # {}
        THEN [tag |-> "panic", tensor |-> None,
              samples |-> SubSeq(coords, 1, CHOOSE n \in bad : \A k \in bad : n <= k)]
        ELSE [tag |-> "ok",
              tensor |-> Some([layout |-> LayoutFromShape(shape),
                               data |-> [n \in 1..Len(idxs) |->
                                   CnnColorMap(Val(ViewGet(img, coords[n].sx, coords[n].sy)))[at(n).c + 1]]]),
              samples |-> coords]

InitEst ==
    /\ est_pc = "none"
    /\ est_src = None
    /\ est_tensor = None
    /\ est_samples = <<>>

\* Cnn::estimate(image): image_map builds the input tensor, then the
\* network runs on it and returns its outputs or an error.  The call
\* takes &self and keeps nothing, so one call per Cnn is followed.
CnnEstimate(img) ==
    /\ cnn_pc = "ok"
    /\ est_pc = "none"
    /\ LET r == ImageMap(img, cnn_fmt, Val(cnn_res))
       IN  /\ est_tensor' = r.tensor
           /\ est_samples' = r.samples
           /\ IF r.tag = "panic"
              THEN est_pc' = "panicked"
              ELSE \E outcome \in {"ok", "err"} : est_pc' = outcome
    /\ est_src' = Some(img)
    /\ UNCHANGED notEst

----------------------------------------------------------------------------
(* zaru-nn: Loader, NeuralNetwork::from_path / from_onnx / estimate        *)

MaxNodes == 2

\* what a model file holds: whether tract can parse and optimize it,
\* whether wonnx can build a session for it, its input and output nodes
ModelData == [wellformed : BOOLEAN, gpu_ok : BOOLEAN, nin : 1..MaxNodes, nout : 1..MaxNodes]

Extensions == {"onnx", "bin"}

\* the tensors a caller passes; estimate() takes one to MaxNodes of them
TensorIds == {"a", "b"}

EstInputs == UNION {[1..n -> TensorIds] : n \in 1..MaxNodes}

\* names of the input and output nodes, in node order
InputName(i) == <<"in", i>>

OutputName(i) == <<"out", i>>

\* variant: requesting the GPU never fails; the session is taken as built
GpuSessionLenient(data, enable) ==
    [tag |-> "ok", gpu |-> enable]

\* the `gpu` binding in load(): wonnx::Session::from_bytes(..)? when
\* enable_gpu, otherwise None
GpuSession(data, enable) ==
    IF enable
    THEN IF data.gpu_ok THEN [tag |-> "ok", gpu |-> TRUE] ELSE [tag |-> "err", gpu |-> FALSE]
    ELSE [tag |-> "ok", gpu |-> FALSE]

\* Loader::load: Err from tract, Err from the GPU session, or the network
LoadNetwork(data, enable) ==
    IF ~data.wellformed THEN [tag |-> "err", gpu |-> FALSE]
    ELSE GpuSession(data, enable)

\* the GPU arm of estimate(): inputs zipped with the input nodes and sent
\* by name; the outputs picked from the returned map by output-node name,
\* in output-node order
EstimateGpu(data, inputs, run_ok) ==
    LET n == Min(data.nin, Len(inputs))
        routed == {<<InputName(i), inputs[i]>> : i \in 1..n}
        output_map == [name \in {OutputName(i) : i \in 1..data.nout} |->
                          [node |-> name[2], by |-> "gpu"]]
    IN  [backend |-> "gpu", routed |-> routed,
         ret |-> IF run_ok THEN "ok" ELSE "err",
         outputs |-> IF run_ok THEN [i \in 1..data.nout |-> output_map[OutputName(i)]]
                     ELSE <<>>]

\* the CPU arm of estimate(): the plan runs on the inputs in order and its
\* outputs are converted in order
EstimateCpu(data, inputs, run_ok) ==
    [backend |-> "cpu", routed |-> {<<i, inputs[i]>> : i \in 1..Len(inputs)},
     ret |-> IF run_ok THEN "ok" ELSE "err",
     outputs |-> IF run_ok THEN [i \in 1..data.nout |-> [node |-> i, by |-> "cpu"]]
                 ELSE <<>>]

InitNn ==
    /\ nn_pc = "none"
    /\ nn_data = None
    /\ nn_enable_gpu = FALSE
    /\ nn_gpu = FALSE
    /\ nn_est = None

\* NeuralNetwork::from_path(path): the extension is checked, the file read
FromPath(ext, file) ==
    /\ nn_pc = "none"
    /\ IF ext # "onnx" \/ file = None
       THEN /\ nn_pc' = "path_err"
            /\ nn_data' = None
       ELSE /\ nn_pc' = "loader"
            /\ nn_data' = file
    /\ UNCHANGED <<nn_enable_gpu, nn_gpu, nn_est>>
    /\ UNCHANGED notNn

\* NeuralNetwork::from_onnx(raw)
FromOnnx(data) ==
    /\ nn_pc = "none"
    /\ nn_pc' = "loader"
    /\ nn_data' = Some(data)
    /\ UNCHANGED <<nn_enable_gpu, nn_gpu, nn_est>>
    /\ UNCHANGED notNn

\* Loader::with_gpu_support()
WithGpuSupport ==
    /\ nn_pc = "loader"
    /\ nn_enable_gpu' = TRUE
    /\ UNCHANGED <<nn_pc, nn_data, nn_gpu, nn_est>>
    /\ UNCHANGED notNn

\* Loader::load()
Load ==
    /\ nn_pc = "loader"
    /\ LET r == LoadNetwork(Val(nn_data), nn_enable_gpu)
       IN  /\ nn_pc' = IF r.tag = "ok" THEN "loaded" ELSE "load_err"
           /\ nn_gpu' = r.gpu
    /\ UNCHANGED <<nn_data, nn_enable_gpu, nn_est>>
    /\ UNCHANGED notNn

\* NeuralNetwork::estimate(inputs); run_ok is whether the backend's run
\* returned Ok
NnEstimate(inputs, run_ok) ==
    /\ nn_pc = "loaded"
    /\ nn_est' = Some(IF nn_gpu THEN EstimateGpu(Val(nn_data), inputs, run_ok)
                      ELSE EstimateCpu(Val(nn_data), inputs, run_ok))
    /\ UNCHANGED <<nn_pc, nn_data, nn_enable_gpu, nn_gpu>>
    /\ UNCHANGED notNn

----------------------------------------------------------------------------
(* image: Image::view / view_mut, ImageView::view, ImageViewMut::view /    *)
(* view_mut                                                                *)

MaxImg == 2

MaxViewDepth == 2

\* the rects asked for: top-left corners from left of / above the image to
\* inside it, sizes from empty to larger than the image
RectCorners == -1..1

RectSizes == {0, 1, 3}

ViewRects == [x : RectCorners, y : RectCorners, w : RectSizes, h : RectSizes]

\* self.rect(): Rect::from_top_left(0, 0, self.width(), self.height())
SelfRect(obj) == [x |-> 0, y |-> 0, w |-> obj.w, h |-> obj.h]

\* variant: the view is placed at its parent's top-left corner
ViewOfParentOrigin(parent, rect) ==
    LET clipped == RectIntersection(SelfRect(parent), rect)
    IN  IF clipped = None
        THEN [x |-> parent.x, y |-> parent.y, w |-> 0, h |-> 0]
        ELSE [x |-> parent.x, y |-> parent.y, w |-> clipped.w, h |-> clipped.h]

\* the body shared by the five view functions, on a parent covering the
\* area `parent` of the image: match self.rect().intersection(rect) with
\* Some(rect) => view(rect.x, rect.y, rect.width, rect.height) and
\* None => view(0, 0, 0, 0), both relative to the parent
ViewOf(parent, rect) ==
    LET clipped == RectIntersection(SelfRect(parent), rect)
    IN  IF clipped = None
        THEN [x |-> parent.x, y |-> parent.y, w |-> 0, h |-> 0]
        ELSE [x |-> parent.x + clipped.x, y |-> parent.y + clipped.y,
              w |-> clipped.w, h |-> clipped.h]

InitView ==
    /\ iv_pc = "none"
    /\ iv_img = None
    /\ iv_cur = [x |-> 0, y |-> 0, w |-> 0, h |-> 0]
    /\ iv_depth = 0
    /\ iv_last = None

\* Image::new(width, height)
ImageNew(w, h) ==
    /\ iv_pc = "none"
    /\ iv_pc' = "image"
    /\ iv_img' = Some([w |-> w, h |-> h])
    /\ iv_cur' = [x |-> 0, y |-> 0, w |-> w, h |-> h]
    /\ UNCHANGED <<iv_depth, iv_last>>
    /\ UNCHANGED notView

\* Image::view(rect)
ImageViewOp(rect) ==
    /\ iv_pc = "image"
    /\ iv_pc' = "view"
    /\ iv_cur' = ViewOf(iv_cur, rect)
    /\ iv_depth' = iv_depth + 1
    /\ iv_last' = Some([op |-> "Image::view", parent |-> iv_cur, rect |-> rect])
    /\ UNCHANGED iv_img
    /\ UNCHANGED notView

\* Image::view_mut(rect)
ImageViewMutOp(rect) ==
    /\ iv_pc = "image"
    /\ iv_pc' = "view_mut"
    /\ iv_cur' = ViewOf(iv_cur, rect)
    /\ iv_depth' = iv_depth + 1
    /\ iv_last' = Some([op |-> "Image::view_mut", parent |-> iv_cur, rect |-> rect])
    /\ UNCHANGED iv_img
    /\ UNCHANGED notView

\* ImageView::view(rect)
ViewViewOp(rect) ==
    /\ iv_pc = "view"
    /\ iv_depth < MaxViewDepth
    /\ iv_pc' = "view"
    /\ iv_cur' = ViewOf(iv_cur, rect)
    /\ iv_depth' = iv_depth + 1
    /\ iv_last' = Some([op |-> "ImageView::view", parent |-> iv_cur, rect |-> rect])
    /\ UNCHANGED iv_img
    /\ UNCHANGED notView

\* ImageViewMut::view(rect)
ViewMutViewOp(rect) ==
    /\ iv_pc = "view_mut"
    /\ iv_depth < MaxViewDepth
    /\ iv_pc' = "view"
    /\ iv_cur' = ViewOf(iv_cur, rect)
    /\ iv_depth' = iv_depth + 1
    /\ iv_last' = Some([op |-> "ImageViewMut::view", parent |-> iv_cur, rect |-> rect])
    /\ UNCHANGED iv_img
    /\ UNCHANGED notView

\* ImageViewMut::view_mut(rect)
ViewMutViewMutOp(rect) ==
    /\ iv_pc = "view_mut"
    /\ iv_depth < MaxViewDepth
    /\ iv_pc' = "view_mut"
    /\ iv_cur' = ViewOf(iv_cur, rect)
    /\ iv_depth' = iv_depth + 1
    /\ iv_last' = Some([op |-> "ImageViewMut::view_mut", parent |-> iv_cur, rect |-> rect])
    /\ UNCHANGED iv_img
    /\ UNCHANGED notView

----------------------------------------------------------------------------
(* zaru-nn: create_linear_color_mapper and the mapper it returns           *)

\* start and end of the target ranges
RangeEnds == -1..2

\* channel values and the colours made of them; alpha varies too
ChannelValues == {0, 128, 255}

AlphaValues == {0, 255}

Colors == {<<r, g, b, al>> : r \in ChannelValues, g \in ChannelValues, b \in ChannelValues, al \in AlphaValues}

BLACK == <<0, 0, 0, 255>>

WHITE == <<255, 255, 255, 255>>

InitMap ==
    /\ cm_pc = "none"
    /\ cm_range = None
    /\ cm_call = None
    /\ cm_prev = None

\* create_linear_color_mapper(start..=end): assert!(end > start)
CreateLinearColorMapper(start, end) ==
    /\ cm_pc = "none"
    /\ cm_range' = Some([start |-> start, end |-> end])
    /\ cm_pc' = IF end > start THEN "made" ELSE "panicked"
    /\ UNCHANGED <<cm_call, cm_prev>>
    /\ UNCHANGED notMap

\* a call of the returned closure on a colour
MapColor(color) ==
    /\ cm_pc = "made"
    /\ cm_prev' = cm_call
    /\ cm_call' = Some([color |-> color,
                        out |-> LinearColorMapper(Val(cm_range).start, Val(cm_range).end, color)])
    /\ UNCHANGED <<cm_pc, cm_range>>
    /\ UNCHANGED notMap

----------------------------------------------------------------------------

Init ==
    /\ iou_thresh = DEFAULT_IOU_THRESH
    /\ mode = "Average"
    /\ avg_buf = <<>>
    /\ out_buf = <<>>
    /\ detections = <<>>
    /\ npc = "idle"
    /\ nmsInput = <<>>
    /\ rounds = <<>>
    /\ trk_roi = None
    /\ trk_res = None
    /\ trk_last = [op |-> "new", tracking |-> FALSE, conf |-> None, ret |-> "unit"]
    /\ trk_held = FALSE
    /\ trk_dropped = FALSE
    /\ trk_pc = "ready"
    /\ InitGui
    /\ InitPipe
    /\ InitTensor
    /\ InitDet
    /\ InitCnn
    /\ InitEst
    /\ InitNn
    /\ InitView
    /\ InitMap

NextNms ==
    \/ \E th \in ThreshValues : SetIouThresh(th)
    \/ \E m \in {"Remove", "Average"} : SetMode(m)
    \/ ProcessBegin
    \/ RoundRemove
    \/ RoundAverage
    \/ ProcessEnd
    \/ DrainDone

SpecNms == Init /\ [][NextNms]_vars

\* process() runs on its caller's thread: a loop iteration that can be
\* made is made, and the loop is left once the list is empty
SpecNmsFair ==
    SpecNms /\ WF_vars(RoundRemove) /\ WF_vars(RoundAverage) /\ WF_vars(ProcessEnd)

NextTrk ==
    \/ \E rect \in FaceRects, rot \in Rotations : SetTrackedFace(rect, rot)
    \/ TrackUntracked
    \/ TrackEmptyView
    \/ TrackTracking

SpecTrk == Init /\ [][NextTrk]_vars

NextGui ==
    \/ \E t \in Threads, k \in Keys : ShowImage(t, k)
    \/ \E t \in Threads : GetSender(t)
    \/ \E t \in Threads : StartGui(t)
    \/ \E t \in Threads : RecvProxy(t)
    \/ \E t \in Threads : LockSender(t)
    \/ \E t \in Threads : SendEvent(t)
    \/ GuiBuild
    \/ GuiNew
    \/ GuiHandleImage
    \/ \E k \in Keys : GuiRedraw(k)

SpecGui == Init /\ [][NextGui]_vars

\* every thread inside show_image and the "gui" thread keep being scheduled
SpecGuiFair ==
    /\ SpecGui
    /\ \A t \in Threads : WF_vars(CallerStep(t))
    /\ WF_vars(GuiBuild) /\ WF_vars(GuiNew) /\ WF_vars(GuiHandleImage)
    /\ \A k \in Keys : WF_vars(GuiRedraw(k))

NextPipe ==
    \/ WebcamRead
    \/ WebcamReadFail
    \/ WebcamSend
    \/ WebcamSendErr
    \/ \E n \in DetectionCounts : DetectorDetect(n)
    \/ DetectorPanic
    \/ DetectorShow

SpecPipe == Init /\ [][NextPipe]_vars

NextTensor ==
    \/ \E shape \in Shapes, kind \in Producers : FromArrayShapeFn(shape, kind)
    \/ \E shape \in Shapes, kind \in Producers : FromDynShapeFn(shape, kind)
    \/ \E indices \in IndexLists : TensorIndex(indices)
    \/ \E indices \in IndexLists : ViewIndex(indices)
    \/ TensorIter
    \/ TensorAsSlice
    \/ TensorAsSingular

SpecTensor == Init /\ [][NextTensor]_vars

\* the detector with its suppressor in either mode
NextDet ==
    \/ \E m \in {"Remove", "Average"} : SetMode(m)
    \/ \E frame \in Frames : DetectBegin(frame)
    \/ \E frame \in Frames : DetectEstimateErr(frame)
    \/ RoundRemove
    \/ RoundAverage
    \/ ProcessEnd
    \/ DetectEnd

SpecDet == Init /\ [][NextDet]_vars

NextCnn ==
    \/ \E net \in Networks, fmt \in CnnInputShapes : CnnNew(net, fmt)
    \/ CnnInputResolution

SpecCnn == Init /\ [][NextCnn]_vars

\* a Cnn is made, then estimate() is called on it
NextEst ==
    \/ \E net \in Networks, fmt \in CnnInputShapes : CnnNew(net, fmt)
    \/ \E img \in SrcImages : CnnEstimate(img)

SpecEst == Init /\ [][NextEst]_vars

NextNn ==
    \/ \E data \in ModelData : FromOnnx(data)
    \/ \E ext \in Extensions, file \in {None} \cup {Some(d) : d \in ModelData} : FromPath(ext, file)
    \/ WithGpuSupport
    \/ Load
    \/ \E inputs \in EstInputs, run_ok \in BOOLEAN : NnEstimate(inputs, run_ok)

SpecNn == Init /\ [][NextNn]_vars

NextView ==
    \/ \E w \in 0..MaxImg, h \in 0..MaxImg : ImageNew(w, h)
    \/ \E rect \in ViewRects : ImageViewOp(rect)
    \/ \E rect \in ViewRects : ImageViewMutOp(rect)
    \/ \E rect \in ViewRects : ViewViewOp(rect)
    \/ \E rect \in ViewRects : ViewMutViewOp(rect)
    \/ \E rect \in ViewRects : ViewMutViewMutOp(rect)

SpecView == Init /\ [][NextView]_vars

NextMap ==
    \/ \E start \in RangeEnds, end \in RangeEnds : CreateLinearColorMapper(start, end)
    \/ \E color \in Colors : MapColor(color)

SpecMap == Init /\ [][NextMap]_vars

----------------------------------------------------------------------------
(* Properties of NonMaxSuppression::process                                *)

\* number of positions of s holding the value v
Count(s, v) == Cardinality({ i \in DOMAIN s : s[i] = v })

RECURSIVE SumFn(_, _)
SumFn(f, S) ==
    IF S = {} THEN 0
    ELSE LET i == CHOOSE j \in S : TRUE IN f[i] + SumFn(f, S \ {i})

\* v is the quotient num / den
IsQuotient(v, num, den) == den # 0 /\ v[2] # 0 /\ v[1] * den = v[2] * num

\* the cluster of a round, taken from the list as it was before the round:
\* the seed followed by every remaining detection overlapping it
ClusterOf(r) ==
    <<r.seed>> \o SelectSeq(r.before, LAMBDA d :
        Iou(r.seed.rect, d.rect)[1] * 10 >= iou_thresh * Iou(r.seed.rect, d.rect)[2])

Weighted(c, F(_)) ==
    SumFn([i \in DOMAIN c |-> c[i].confidence * F(c[i])], DOMAIN c)

WeightSum(c) == SumFn([i \in DOMAIN c |-> c[i].confidence], DOMAIN c)

NmsReturned == npc = "drain"

PairwiseBelow(s) ==
    \A i, j \in DOMAIN s : i # j => ~IouGe(s[i].rect, s[j].rect, iou_thresh)

\* C1: after process() in Remove mode with threshold theta, no two emitted
\* detections have pairwise IoU >= theta.
C1_RemoveNoOverlap ==
    (NmsReturned /\ mode = "Remove") => PairwiseBelow(out_buf)

C1_Witness ==
    /\ NmsReturned /\ mode = "Remove"
    /\ Len(out_buf) >= 2
    /\ Len(nmsInput) > Len(out_buf)

\* C2: in Average mode every round emits exactly one detection for its
\* cluster (seed plus every remaining detection with IoU >= iou_thresh); the
\* rect components and the keypoints are the confidence-weighted means over
\* the cluster, and the confidence is the seed's, the maximum of the cluster.
C2_AverageWeighted ==
    (npc \in {"loop", "drain"} /\ mode = "Average") =>
        /\ Len(out_buf) = Len(rounds)
        /\ \A k \in DOMAIN rounds :
             LET c == ClusterOf(rounds[k])
                 e == out_buf[k]
                 W == WeightSum(c)
             IN  /\ IsQuotient(e.rect.xc, Weighted(c, LAMBDA d : d.rect.xc), W)
                 /\ IsQuotient(e.rect.yc, Weighted(c, LAMBDA d : d.rect.yc), W)
                 /\ IsQuotient(e.rect.w,  Weighted(c, LAMBDA d : d.rect.w),  W)
                 /\ IsQuotient(e.rect.h,  Weighted(c, LAMBDA d : d.rect.h),  W)
                 /\ (\A i \in DOMAIN c : Len(c[i].keypoints) = Len(c[1].keypoints)) =>
                       /\ Len(e.keypoints) = Len(c[1].keypoints)
                       /\ \A p \in DOMAIN e.keypoints :
                            /\ IsQuotient(e.keypoints[p].x,
                                          Weighted(c, LAMBDA d : d.keypoints[p].x), W)
                            /\ IsQuotient(e.keypoints[p].y,
                                          Weighted(c, LAMBDA d : d.keypoints[p].y), W)
                 /\ e.confidence = rounds[k].seed.confidence
                 /\ \A i \in DOMAIN c : c[i].confidence <= e.confidence
        /\ npc = "drain" =>
             SumFn([k \in DOMAIN rounds |-> Len(ClusterOf(rounds[k]))], DOMAIN rounds)
               = Len(nmsInput)

C2_Witness ==
    /\ NmsReturned /\ mode = "Average"
    /\ Len(rounds) >= 2
    /\ \E k \in DOMAIN rounds :
         LET c == ClusterOf(rounds[k])
         IN  /\ Len(c) >= 2
             /\ c[1].confidence # c[2].confidence
             /\ c[1].rect # c[2].rect
             /\ c[1].keypoints # <<>> /\ c[2].keypoints # <<>>

\* C3: in Remove mode every emitted detection is an input detection,
\* unchanged; a highest-confidence input is emitted; and an input is left
\* out only if an emitted detection of greater-or-equal confidence overlaps
\* it with IoU >= iou_thresh.
C3_RemoveKeepsInputs ==
    (NmsReturned /\ mode = "Remove") =>
        /\ \A i \in DOMAIN out_buf : Count(out_buf, out_buf[i]) <= Count(nmsInput, out_buf[i])
        /\ nmsInput # <<>> =>
             /\ out_buf # <<>>
             /\ \A i \in DOMAIN nmsInput : nmsInput[i].confidence <= out_buf[1].confidence
        /\ \A i \in DOMAIN nmsInput :
             Count(out_buf, nmsInput[i]) < Count(nmsInput, nmsInput[i]) =>
                \E j \in DOMAIN out_buf :
                    /\ out_buf[j].confidence >= nmsInput[i].confidence
                    /\ IouGe(out_buf[j].rect, nmsInput[i].rect, iou_thresh)

C3_Witness ==
    /\ NmsReturned /\ mode = "Remove"
    /\ \E i, j \in DOMAIN nmsInput : nmsInput[i].confidence < nmsInput[j].confidence
    /\ \E i \in DOMAIN nmsInput : Count(out_buf, nmsInput[i]) = 0
    /\ Len(out_buf) >= 2

\* C4: in Remove mode, if every pair of input detections has IoU below
\* iou_thresh, all of them are emitted unchanged (as many outputs as inputs),
\* also when confidences are equal.
C4_RemoveKeepsDisjoint ==
    (NmsReturned /\ mode = "Remove" /\ PairwiseBelow(nmsInput)) =>
        /\ Len(out_buf) = Len(nmsInput)
        /\ \A i \in DOMAIN nmsInput : Count(out_buf, nmsInput[i]) = Count(nmsInput, nmsInput[i])

C4_Witness ==
    /\ NmsReturned /\ mode = "Remove"
    /\ Len(nmsInput) >= 2
    /\ PairwiseBelow(nmsInput)
    /\ \A i, j \in DOMAIN nmsInput : nmsInput[i].confidence = nmsInput[j].confidence
    /\ Len(out_buf) = Len(nmsInput)

----------------------------------------------------------------------------
(* Properties of the LandmarkTracker                                       *)

TrackedNow == trk_roi # None

\* the call just made was a track() in state Tracking that got a confidence
TrackedWithConf == trk_last.op = "track" /\ trk_last.tracking /\ trk_last.conf # None

\* C5: a track() in state Tracking whose face confidence is below the
\* threshold leaves the tracker Untracked and returns none; with a confidence
\* at or above the threshold the tracker stays Tracking and a result is
\* returned.
C5_LowConfidenceDrops ==
    TrackedWithConf =>
        IF Val(trk_last.conf) < DEFAULT_LOSS_THRESH
        THEN ~TrackedNow /\ trk_res = None /\ trk_last.ret = "none"
        ELSE TrackedNow /\ trk_res # None /\ trk_last.ret = "some"

C5_Witness ==
    /\ TrackedWithConf
    /\ Val(trk_last.conf) = DEFAULT_LOSS_THRESH
    /\ TrackedNow /\ trk_res # None

\* C6: the tracker starts Untracked; it holds a face exactly when a face was
\* accepted since the last dropped track; track() in Untracked returns none
\* and stays Untracked; set_tracked_face always leads to Tracking, also after
\* a dropped track.
C6_Lifecycle ==
    /\ trk_last.op = "new" => ~TrackedNow
    /\ TrackedNow <=> trk_held
    /\ (trk_last.op = "track" /\ ~trk_last.tracking) =>
          (~TrackedNow /\ trk_res = None /\ trk_last.ret = "none")
    /\ trk_last.op = "set" => TrackedNow

\* a face was accepted while Untracked after an earlier track was dropped
C6_Witness ==
    /\ trk_last.op = "set" /\ ~trk_last.tracking
    /\ trk_dropped
    /\ TrackedNow
    /\ trk_pc = "ready"

\* C7: whenever track() returns a result, each landmark moved by the origin
\* of the reported view rect is the landmark's position in the full image,
\* also when the ROI sticks out of the frame and the view was clipped.
C7_RoiOriginConsistent ==
    trk_res # None =>
        \A i \in DOMAIN Val(trk_res).landmarks :
            LET r  == Val(trk_res)
                lm == r.landmarks[i]
            IN  /\ lm.x + r.view_rect.x = lm.x + r.view_origin.x
                /\ lm.y + r.view_rect.y = lm.y + r.view_origin.y


----------------------------------------------------------------------------
(* Properties of the GUI bridge                                            *)

\* the messages of q that are for key k
ForKey(q, k) == SelectSeq(q, LAMBDA m : m.key = k)

\* the frame of the last message of q for key k, 0 if there is none
LastFrameFor(q, k) ==
    IF ForKey(q, k) = <<>> THEN 0 ELSE ForKey(q, k)[Len(ForKey(q, k))].frame

\* thread t is inside show_image, cannot take its next step, and the one it
\* waits for is not another caller holding the proxy's mutex: it waits for
\* the "gui" thread
WaitsForGui(t) ==
    /\ c_pc[t] # "idle"
    /\ ~ENABLED CallerStep(t)
    /\ ~(c_pc[t] = "lock" /\ sender_lock # 0)

\* C8 as stated: show_image is lossy, older undisplayed frames of a key are
\* discarded, so at most the latest frame per key is pending.
C8_AtMostLatestPending ==
    \A k \in Keys : Len(ForKey(evq, k)) <= 1

\* What the event loop does instead: no frame is discarded.  Every message
\* passed to send_event is handled or still pending, in send order, so
\* several frames of one key can be pending; the texture of a key holds the
\* frame of the last handled message for it, and once nothing is pending the
\* window shows the last frame sent for the key.
EventsLosslessFifo ==
    /\ handled \o evq = sentLog
    /\ \A k \in Keys : windows[k] = LastFrameFor(handled, k)
    /\ (evq = <<>> /\ redraw = {}) =>
           \A k \in Keys : screen[k] = LastFrameFor(sentLog, k)

SeveralPendingForKey ==
    /\ \E k \in Keys : Len(ForKey(evq, k)) >= 2
    /\ handled # <<>>

\* C9 as stated: a show_image call never waits for the display thread,
\* the first call included.
C9_NeverWaitsForGui ==
    \A t \in Threads : ~WaitsForGui(t)

\* C9, amended: once SENDER holds the proxy, no show_image call waits for
\* the display thread, however many messages the event loop has not handled.
C9_NoWaitOnceStarted ==
    sender_cell = "done" => \A t \in Threads : ~WaitsForGui(t)

C9_Witness ==
    /\ sender_cell = "done"
    /\ Len(evq) >= 2
    /\ \E t \in Threads : c_pc[t] = "send_event"

----------------------------------------------------------------------------
(* Properties of the webcam -> detector pipeline                           *)

\* C10 as stated: the producer does not wait for the consumer; a frame it
\* cannot hand over is dropped.
C10_ProducerNeverWaits ==
    w_pc = "send" => ENABLED WebcamStep

\* C10, amended: the channel is a rendezvous.  The producer holds its frame
\* in send() until the detector thread takes it, and no frame is dropped
\* while the detector thread lives: the frames received, followed by the one
\* held in send(), are exactly the frames read, in order.
C10_RendezvousNoDrop ==
    /\ (w_pc = "send" /\ d_pc \in {"detect", "show"}) => ~ENABLED WebcamStep
    /\ d_pc # "panicked" =>
          delivered \o (IF w_pc = "send" THEN <<w_frame>> ELSE <<>>) = [i \in 1..nread |-> i]

C10_Witness ==
    /\ w_pc = "send"
    /\ d_pc = "detect"
    /\ Len(delivered) >= 2

\* C29: once webcam.read() has failed and the webcam thread has ended, the
\* detector thread ends too and main returns; no thread waits forever on
\* the channel after the other one has exited.  A thread that waits on the
\* channel while the other has exited must be able to go on.
C29_NoWaitAfterExit ==
    /\ (w_pc = "done" /\ d_pc = "recv") => ENABLED NextPipe
    /\ (d_pc = "panicked" /\ w_pc = "send") => ENABLED NextPipe

----------------------------------------------------------------------------
(* Properties of nn::tensor                                                *)

\* the indices valid for a shape
ValidIndices(shape) ==
    {idx \in [1..Len(shape) -> IndexValues] : \A j \in 1..Len(shape) : idx[j] < shape[j]}

\* a comes before b in lexicographic order (same length)
LexLess(a, b) ==
    \E j \in 1..Len(a) : a[j] < b[j] /\ \A i \in 1..(j - 1) : a[i] = b[i]

\* indices is a prefix of valid indices of shape
InRange(shape, indices) ==
    /\ Len(indices) <= Len(shape)
    /\ \A j \in 1..Len(indices) : indices[j] < shape[j]

\* the row-major stride of axis j of shape
RowMajorStride(shape, j) == Product(SubSeq(shape, j + 1, Len(shape)))

RECURSIVE Offset(_, _, _)
\* sum of indices[i] * stride_i for i from j on
Offset(shape, indices, j) ==
    IF j > Len(indices) THEN 0
    ELSE indices[j] * RowMajorStride(shape, j) + Offset(shape, indices, j + 1)

\* the call numbers whose index has the given prefix
CallsWithPrefix(prefix) ==
    {n \in 1..Len(tn_calls) : SubSeq(tn_calls[n], 1, Len(prefix)) = prefix}

\* the values the producer returned, in call order
Produced == [n \in 1..Len(tn_calls) |-> Produce(tn_kind, tn_calls[n], n)]

\* the values the producer returned for the calls with the given prefix, in call order
ProducedFor(prefix) == SelectSeq([n \in 1..Len(tn_calls) |-> <<n, Produced[n]>>],
                                 LAMBDA p : p[1] \in CallsWithPrefix(prefix))

\* C11: both constructors give a tensor whose shape() is the shape asked
\* for; the producer is called once per valid index, in lexicographic order
\* (last axis fastest); the value read at a valid index is what the producer
\* returned for that index.
C11_FromShapeFn ==
    tn_tensor # None =>
        LET t == Val(tn_tensor)
        IN  /\ t.layout.shape = tn_shape
            /\ Len(tn_calls) = Cardinality(ValidIndices(tn_shape))
            /\ \A idx \in ValidIndices(tn_shape) : \E n \in 1..Len(tn_calls) : tn_calls[n] = idx
            /\ \A m, n \in 1..Len(tn_calls) : m < n => LexLess(tn_calls[m], tn_calls[n])
            /\ \A n \in 1..Len(tn_calls) :
                  /\ IndexOp(t, tn_calls[n]) # None
                  /\ AsSingularOp(Val(IndexOp(t, tn_calls[n]))) = Some(Produced[n])

C11_Witness ==
    /\ tn_pc = "built"
    /\ tn_ctor = "dyn"
    /\ tn_shape = <<2, 2>>
    /\ tn_kind = "by_call"
    /\ Val(tn_tensor).data = <<1, 2, 3, 4>>

\* C12: a shape with a zero dimension makes no producer call and is still
\* the shape reported; the rank-0 shape makes exactly one call, with the empty
\* index, and stores one value.
C12_EmptyAndScalar ==
    tn_tensor # None =>
        /\ (\E j \in 1..Len(tn_shape) : tn_shape[j] = 0) =>
              /\ tn_calls = <<>>
              /\ Val(tn_tensor).data = <<>>
              /\ Val(tn_tensor).layout.shape = tn_shape
        /\ tn_shape = <<>> =>
              /\ tn_calls = << <<>> >>
              /\ Len(Val(tn_tensor).data) = 1

C12_Witness ==
    /\ tn_pc = "built"
    /\ tn_ctor = "array"
    /\ tn_shape = <<2, 0>>
    /\ tn_calls = <<>>

\* C13: for in-range index lists a and b, t.index(a).index(b) succeeds and
\* is the view t.index(a ++ b): same shape, same values.
C13_IndexCompose ==
    (Len(tn_path) = 2 /\ InRange(tn_shape, tn_path[1] \o tn_path[2])) =>
        /\ tn_view # None
        /\ tn_op.op = "index" => tn_op.result # None
        /\ IndexOp(Val(tn_tensor), tn_path[1] \o tn_path[2]) # None
        /\ LET direct == Val(IndexOp(Val(tn_tensor), tn_path[1] \o tn_path[2]))
           IN  /\ direct.layout.shape = Val(tn_view).layout.shape
               /\ direct.data = Val(tn_view).data

C13_Witness ==
    /\ tn_pc = "view2"
    /\ tn_shape = <<2, 2>>
    /\ tn_kind = "by_index"
    /\ tn_path = << <<1>>, <<0>> >>
    /\ Val(tn_view).data = <<710>>

\* C14: index() panics when given more indices than dimensions or an index
\* i_j >= shape[j], whatever the shape.
C14_IndexPanics ==
    (tn_op.op = "index" /\ ~InRange(Val(tn_op.on).layout.shape, tn_op.args)) =>
        tn_op.result = None

\* C15: tensor.index of k in-range indices gives a view of shape s[k..]
\* whose data are the prod(s[k..]) consecutive values from offset
\* sum(i_j * stride_j) of the tensor's prod(s) values: the values produced for
\* the indices with that prefix, in construction order.
C15_IndexView ==
    (Len(tn_path) >= 1 /\ InRange(tn_shape, tn_path[1])) =>
        LET a == tn_path[1]
            k == Len(a)
            t == Val(tn_tensor)
            v == IndexOp(t, a)
            off == Offset(tn_shape, a, 1)
            n == Product(SubSeq(tn_shape, k + 1, Len(tn_shape)))
        IN  /\ v # None
            /\ Len(tn_path) = 1 => tn_view = v
            /\ Len(t.data) = Product(tn_shape)
            /\ Val(v).layout.shape = SubSeq(tn_shape, k + 1, Len(tn_shape))
            /\ Len(Val(v).layout.shape) = Len(tn_shape) - k
            /\ Len(Val(v).data) = n
            /\ Val(v).data = SubSeq(t.data, off + 1, off + n)
            /\ Val(v).data = [i \in 1..Len(ProducedFor(a)) |-> ProducedFor(a)[i][2]]

C15_Witness ==
    /\ tn_pc = "view1"
    /\ tn_shape = <<2, 2>>
    /\ tn_kind = "by_call"
    /\ tn_path = << <<1>> >>
    /\ Val(tn_view).data = <<3, 4>>

\* C16: iter() on rank >= 1 yields shape[0] views, the i-th being
\* index([i]) with shape shape[1..], also when a later dimension is 0; on
\* rank 0 it panics.
C16_Iter ==
    tn_op.op = "iter" =>
        LET obj == Val(tn_op.on)
            shape == obj.layout.shape
        IN  IF Len(shape) = 0 THEN tn_op.result = None
            ELSE /\ tn_op.result # None
                 /\ Len(Val(tn_op.result)) = shape[1]
                 /\ \A i \in 1..shape[1] :
                       /\ Some(Val(tn_op.result)[i]) = IndexOp(obj, <<i - 1>>)
                       /\ Val(tn_op.result)[i].layout.shape = Tail(shape)

C16_Witness ==
    /\ tn_op.op = "iter"
    /\ Val(tn_op.on).layout.shape = <<2, 0>>
    /\ tn_op.result # None
    /\ Len(Val(tn_op.result)) = 2

\* C17: as_slice succeeds exactly on rank 1 and returns all shape[0]
\* values; as_singular succeeds exactly on rank 0 and returns the one value.
C17_Accessors ==
    /\ tn_op.op = "as_slice" =>
          LET obj == Val(tn_op.on)
          IN  /\ tn_op.result # None <=> Len(obj.layout.shape) = 1
              /\ tn_op.result # None =>
                    /\ Len(Val(tn_op.result)) = obj.layout.shape[1]
                    /\ \A i \in 1..obj.layout.shape[1] :
                          Some(Val(tn_op.result)[i]) = AsSingularOp(Val(IndexOp(obj, <<i - 1>>)))
    /\ tn_op.op = "as_singular" =>
          LET obj == Val(tn_op.on)
          IN  /\ tn_op.result # None <=> Len(obj.layout.shape) = 0
              /\ tn_op.result # None =>
                    /\ Len(obj.data) = 1
                    /\ Val(tn_op.result) = obj.data[1]

C17_Witness ==
    /\ tn_op.op = "as_slice"
    /\ tn_path = << <<1>> >>
    /\ tn_shape = <<2, 2>>
    /\ tn_op.result = Some(<<710, 711>>)

----------------------------------------------------------------------------
(* Properties of Detector::detect                                          *)

\* detect() has returned its list for det_frame
DetectReturned == det_pc = "idle" /\ det_last.op = "detect" /\ det_last.ret = "detections"

\* C18: anchors below the threshold are discarded before NMS, so every
\* detection returned has confidence >= the threshold in either suppression
\* mode, and a frame without an anchor at or above the threshold gives an
\* empty list, not a failure.
C18_ThresholdBeforeNms ==
    /\ det_pc = "nms" =>
          /\ \A i \in 1..Len(nmsInput) : nmsInput[i].confidence >= DEFAULT_THRESH
          /\ Len(nmsInput) =
                Cardinality({i \in 1..Len(det_frame) : det_frame[i].confidence >= DEFAULT_THRESH})
    /\ DetectReturned =>
          /\ \A i \in 1..Len(det_out) : det_out[i].raw.confidence >= DEFAULT_THRESH
          /\ (\A i \in 1..Len(det_frame) : det_frame[i].confidence < DEFAULT_THRESH)
                <=> det_out = <<>>
    /\ (det_last.estimate = "ok" /\ det_pc # "panicked") => npc # "panicked"

C18_Witness ==
    /\ DetectReturned
    /\ mode = "Remove"
    /\ det_frame[1].confidence = 0
    /\ det_frame[2].confidence = DEFAULT_THRESH
    /\ Len(det_out) = 1

RECURSIVE ProcessAll(_, _, _)
\* what process() returns for a sorted list when no assertion fails
ProcessAll(dets, m, th) ==
    IF dets = <<>> THEN <<>>
    ELSE LET seed == Last(dets)
             rest == Front(dets)
             buf  == <<seed>> \o Removed(seed, rest, th)
             out  == IF m = "Remove" THEN seed ELSE Averaged(seed, Accumulate(AccInit, buf))
         IN  <<out>> \o ProcessAll(Retained(seed, rest, th), m, th)

\* the lists detect() can return for a frame of resolution res in
\* suppression mode m, computed from that frame alone
ResultsFor(frame, res, m) ==
    { [i \in 1..Len(ProcessAll(sorted, m, iou_thresh)) |->
           [raw |-> ProcessAll(sorted, m, iou_thresh)[i], full_res |-> res]] :
      sorted \in SortedPerms(FilterAnchors(frame, 1)) }

\* C30: in every sequence of detect calls the list a call returns holds
\* only detections decoded from that call's frame, each with that frame's
\* full resolution; nothing of earlier calls persists, and raw_detections
\* and the suppressor's buffers are empty after the call, so the result is
\* a function of the call's frame (and the detector's settings), not of the
\* frames before it.
C30_ResultOfCurrentFrameOnly ==
    DetectReturned =>
        /\ det_out \in ResultsFor(det_frame, Val(det_last.full_res), det_last.mode)
        /\ detections = <<>>
        /\ out_buf = <<>>
        /\ avg_buf = <<>>

C30_Witness ==
    /\ DetectReturned
    /\ det_last.prev = 2
    /\ det_last.mode = "Average"
    /\ Len(det_out) = 1
    /\ det_out[1].full_res = <<2, 2>>

\* C19: a backend error during estimate reaches the caller of detect as an
\* error outcome and the detector stays usable for the next frame.
C19_ErrorPropagated ==
    det_last.estimate = "err" => (det_last.ret = "error" /\ det_pc = "idle")

----------------------------------------------------------------------------
(* Properties of Cnn::new                                                  *)

\* the network has exactly one input and its shape is [1, 3, H, W] for NCHW
\* or [1, H, W, 3] for NHWC
ValidCnnInput ==
    /\ Len(cnn_net) = 1
    /\ cnn_net[1].concrete
    /\ Len(cnn_net[1].shape) = 4
    /\ cnn_net[1].shape[1] = 1
    /\ cnn_fmt = "NCHW" => cnn_net[1].shape[2] = 3
    /\ cnn_fmt = "NHWC" => cnn_net[1].shape[4] = 3

\* (W, H) of the valid input shape
ShapeResolution ==
    IF cnn_fmt = "NCHW"
    THEN [w |-> cnn_net[1].shape[4], h |-> cnn_net[1].shape[3]]
    ELSE [w |-> cnn_net[1].shape[3], h |-> cnn_net[1].shape[2]]

\* C20 as stated: Cnn::new returns an error, never a Cnn, unless the input
\* is valid; on success input_resolution() is (W, H).
C20_ErrorUnlessValid ==
    /\ (cnn_pc # "none" /\ ~ValidCnnInput) => cnn_pc = "err"
    /\ cnn_pc = "ok" => (cnn_res = Some(ShapeResolution) /\ cnn_read \in {None, cnn_res})

\* C20, amended: Cnn::new gives a Cnn only for a valid input, and then
\* input_resolution() is (W, H); otherwise it returns an error, except that
\* it panics when the network's single input has a symbolic shape.
C20_NoCnnUnlessValid ==
    /\ cnn_pc = "ok" =>
          /\ ValidCnnInput
          /\ cnn_res = Some(ShapeResolution)
          /\ cnn_read \in {None, Some(ShapeResolution)}
    /\ (cnn_pc # "none" /\ ~ValidCnnInput) =>
          IF Len(cnn_net) = 1 /\ ~cnn_net[1].concrete
          THEN cnn_pc = "panicked"
          ELSE cnn_pc = "err"
    /\ (cnn_pc # "none" /\ ValidCnnInput) =>
          (cnn_pc = "ok" <=> (ShapeResolution.w <= U32_MAX /\ ShapeResolution.h <= U32_MAX))

C20_Witness ==
    /\ cnn_pc = "ok"
    /\ cnn_fmt = "NHWC"
    /\ cnn_net = <<ConcreteShape(<<1, 3, 4, 3>>)>>
    /\ cnn_read = Some([w |-> 4, h |-> 3])

----------------------------------------------------------------------------
(* Properties of Cnn::estimate                                             *)

\* image_map ran to its end in the estimate() call made
EstMapped == est_pc \in {"ok", "err"}

\* position in the tensor's data of destination pixel (x, y), channel c
InputOffset(c, y, x) ==
    LET res == Val(cnn_res)
    IN  IF cnn_fmt = "NCHW"
        THEN (c * res.h + y) * res.w + x
        ELSE (y * res.w + x) * 3 + c

\* the integer nearest to num/den (halves upwards), for num >= 0, den > 0
Nearest(num, den) ==
    CHOOSE r \in 0..(num + 1) : 2 * r * den - den <= 2 * num /\ 2 * num < 2 * r * den + den

\* the value (in units of 1/255) the colour map -1..=1 gives to a channel
MappedChannel(color, c) == 2 * color[c + 1] - 255

\* the input tensor holds, for every destination pixel and channel, the
\* mapped colour of the source pixel at (sx(x), sy(y))
FilledFrom(sx(_), sy(_)) ==
    LET res == Val(cnn_res)
        src == Val(est_src)
    IN  /\ est_tensor # None
        /\ Val(est_tensor).layout.shape = (IF cnn_fmt = "NCHW" THEN <<1, 3, res.h, res.w>>
                                           ELSE <<1, res.h, res.w, 3>>)
        /\ Len(Val(est_tensor).data) = 3 * res.h * res.w
        /\ \A c \in 0..2, y \in 0..(res.h - 1), x \in 0..(res.w - 1) :
              /\ sx(x) < src.w
              /\ sy(y) < src.h
              /\ Val(est_tensor).data[InputOffset(c, y, x) + 1]
                    = MappedChannel(src.px[<<sx(x), sy(y)>>], c)

C27_SamplesInBounds ==
    est_pc # "none" =>
        \A n \in 1..Len(est_samples) :
            /\ est_samples[n].sx < Val(est_src).w
            /\ est_samples[n].sy < Val(est_src).h

----------------------------------------------------------------------------
(* Properties of Loader::load and NeuralNetwork::estimate                  *)

\* load() has returned
LoadReturned == nn_pc \in {"loaded", "load_err"}

\* C22 as a whole: a network the GPU backend cannot run is rejected by load()
\* when GPU support was requested; estimate() runs on the GPU exactly when
\* the network was loaded with GPU support, on the CPU otherwise, and what it
\* returns holds one tensor per output node, in output-node order
C22_GpuChosenAtLoad ==
    /\ (LoadReturned /\ nn_enable_gpu /\ ~Val(nn_data).gpu_ok) =>
          (nn_pc = "load_err" /\ ~nn_gpu /\ nn_est = None)
    /\ nn_pc = "loaded" => (nn_gpu <=> nn_enable_gpu)
    /\ nn_est # None =>
          /\ nn_pc = "loaded"
          /\ Val(nn_est).backend = (IF nn_enable_gpu THEN "gpu" ELSE "cpu")
          /\ Val(nn_est).ret = "ok" =>
                /\ Len(Val(nn_est).outputs) = Val(nn_data).nout
                /\ \A i \in 1..Val(nn_data).nout :
                      /\ Val(nn_est).outputs[i].node = i
                      /\ Val(nn_est).outputs[i].by = Val(nn_est).backend

C22_Witness ==
    /\ nn_pc = "load_err"
    /\ nn_enable_gpu
    /\ Val(nn_data).wellformed
    /\ ~Val(nn_data).gpu_ok

----------------------------------------------------------------------------
(* Further properties of NonMaxSuppression::process                        *)

\* the members of a cluster all have the same number of keypoints
SameKeypointCount(members) ==
    \A i, j \in 1..Len(members) : Len(members[i].keypoints) = Len(members[j].keypoints)

\* C23: in Average mode no averaged detection is emitted for a cluster whose
\* members differ in keypoint count (a member without keypoints next to one
\* with keypoints included, in any order): process() fails its assertion
C23_SameCountEnforced ==
    mode = "Average" =>
        /\ \A r \in 1..Len(rounds) : SameKeypointCount(rounds[r].members)
        /\ (npc = "loop" /\ avg_buf # <<>>) => SameKeypointCount(avg_buf)

\* how often detection d occurs among the clusters of the rounds made
InClusters(d) ==
    SumFn([r \in 1..Len(rounds) |-> Count(rounds[r].members, d)], 1..Len(rounds))

\* between two iterations of the loop, and at return: every input is in the
\* list still, or the seed or a removed member of exactly one round
ConsumedOnce ==
    npc \in {"loop", "drain"} =>
        /\ \A k \in DOMAIN DetSeq :
              Count(nmsInput, DetSeq[k]) = InClusters(DetSeq[k]) + Count(detections, DetSeq[k])
        /\ \A r \in 1..Len(rounds) : rounds[r].members[1] = rounds[r].seed
        /\ \A r, q \in 1..Len(rounds) :
              r < q => rounds[r].seed.confidence >= rounds[q].seed.confidence
        /\ Len(out_buf) = Len(rounds)
        /\ Len(rounds) <= Len(nmsInput)
        /\ NmsReturned => detections = <<>>

\* C28: process() comes to an end on every input (it returns, or fails the
\* assertion of the averaging loop), and when it returns every input
\* detection was consumed exactly once, as the seed of one round or as a
\* removed member of one seed's cluster; seeds are taken in non-increasing
\* confidence order, there are as many outputs as rounds, at most as many
\* as inputs, and the input vector is empty
C28_TerminatesConsumingAll ==
    /\ []ConsumedOnce
    /\ (npc = "loop") ~> (npc \in {"drain", "panicked"})

C28_Witness ==
    /\ NmsReturned
    /\ Len(nmsInput) = 3
    /\ Len(rounds) = 2
    /\ \E r \in 1..2 : Len(rounds[r].members) = 2
    /\ detections = <<>>

----------------------------------------------------------------------------
(* Properties of the image views                                           *)

\* the pixels of the image an area covers
PixelsOf(a) == {<<px, py>> : px \in a.x..(a.x + a.w - 1), py \in a.y..(a.y + a.h - 1)}

\* the pixels of the image a rect covers when its coordinates are taken
\* relative to the top-left corner of the parent
PixelsAsked(parent, rect) ==
    {<<parent.x + px, parent.y + py>> :
        px \in rect.x..(rect.x + rect.w - 1), py \in rect.y..(rect.y + rect.h - 1)}

\* C24: after Image::view, Image::view_mut, ImageView::view,
\* ImageViewMut::view and ImageViewMut::view_mut the view covers exactly the
\* intersection of the rect asked for with the parent; it stays inside the
\* parent and is no larger than the rect, and it is 0 wide and 0 high when
\* the intersection is empty
C24_ViewIsIntersection ==
    iv_last # None =>
        LET parent == Val(iv_last).parent
            rect == Val(iv_last).rect
            common == PixelsOf(parent) \cap PixelsAsked(parent, rect)
        IN  /\ PixelsOf(iv_cur) = common
            /\ PixelsOf(iv_cur) \subseteq PixelsOf(parent)
            /\ iv_cur.w <= rect.w /\ iv_cur.h <= rect.h
            /\ iv_cur.w >= 0 /\ iv_cur.h >= 0
            /\ common = {} => (iv_cur.w = 0 /\ iv_cur.h = 0)
            /\ common # {} => Cardinality(common) = iv_cur.w * iv_cur.h

C24_Witness ==
    /\ iv_depth = 2
    /\ Val(iv_last).op = "ImageViewMut::view"
    /\ Val(iv_last).parent = [x |-> 1, y |-> 0, w |-> 1, h |-> 2]
    /\ Val(iv_last).rect = [x |-> -1, y |-> 1, w |-> 3, h |-> 3]
    /\ iv_cur = [x |-> 1, y |-> 1, w |-> 1, h |-> 1]

----------------------------------------------------------------------------
(* Properties of create_linear_color_mapper                                *)

----------------------------------------------------------------------------
(* Properties of the shared sender of the GUI bridge                       *)

\* the steps of the "gui" thread: spawned, event loop built, proxy handed
\* over, Gui::new, event loop running
GuiThreadSteps ==
    {<<"none", "build">>, <<"build", "send_proxy">>, <<"send_proxy", "gui_new">>,
     <<"gui_new", "run">>}

\* the cell is empty exactly while no "gui" thread exists, one thread at most
\* runs start_gui, and nobody is past get_or_init before the proxy is there
StartedOnFirstCall ==
    /\ sender_cell = "uninit" <=> g_pc = "none"
    /\ sender_cell = "uninit" =>
          /\ sentLog = <<>>
          /\ \A t \in Threads : c_pc[t] \in {"idle", "get_or_init"}
    /\ Cardinality({t \in Threads : c_pc[t] = "recv_proxy"})
          = IF sender_cell = "running" THEN 1 ELSE 0
    /\ (\E t \in Threads : c_pc[t] \in {"lock", "send_event"}) \/ sentLog # <<>> =>
          /\ sender_cell = "done"
          /\ g_pc \in {"gui_new", "run"}
    /\ \A t \in Threads : c_pc[t] = "send_event" <=> sender_lock = t

\* the messages of one thread are in q in the order of its calls
PerThreadOrder(q) ==
    \A i, j \in 1..Len(q) :
        (i < j /\ q[i].from = q[j].from) => q[i].frame < q[j].frame

\* C26: however show_image calls of several threads interleave, the "gui"
\* thread and its event loop are started once, by the first call; every
\* call ends with its message in the queue of that event loop, every message
\* sent is handled, and the messages of one thread are handled in the order
\* it sent them.
C26_OneLoopAllDelivered ==
    /\ [](/\ StartedOnFirstCall
          /\ handled \o evq = sentLog
          /\ PerThreadOrder(sentLog)
          /\ PerThreadOrder(handled))
    /\ [][g_pc' # g_pc => <<g_pc, g_pc'>> \in GuiThreadSteps]_vars
    /\ \A t \in Threads : (c_pc[t] # "idle") ~> (c_pc[t] = "idle")
    /\ []<>(handled = sentLog)

C26_Witness ==
    /\ g_pc = "run"
    /\ Len(handled) = 3
    /\ handled[1].from = 2 /\ handled[1].frame = 2
    /\ handled[2].from = 1 /\ handled[2].frame = 1
    /\ handled[3].from = 1 /\ handled[3].frame = 3
    /\ evq = <<>>

====
